---- MODULE Spec2Model ----
(***************************************************************************)
(* Luggage-storage shop: per-day sequence counters, pricing, the order     *)
(* lifecycle and the cash-closing workflow, modelled from app/main.py,     *)
(* app/services/*.py and app/supabase_client.py.                           *)
(*                                                                         *)
(* Times are whole hours of the shop's local zone (JST): t = 24*day + hour.*)
(* Optional (nullable) columns are sets: {} is None, {v} is the value v.   *)
(* Strings that the code parses or formats (tag numbers) are sequences of  *)
(* one-character strings.                                                  *)
(***************************************************************************)
EXTENDS Integers, Sequences, FiniteSets, TLC

\* ------------------------------------------------------------------ bounds
\* business dates are 0..MaxDay
MaxDay == 1
\* no counter is advanced past MaxSeq (guards of the calling actions)
MaxSeq == 3
\* rows of the orders table in the sequential specification
MaxOrders == 1
\* request slots that may overlap in the interleaved specifications
NumProcs == 2
\* requests started in one behaviour of an interleaved specification
MaxCalls == 3
\* a pickup date this many days after the last business date is offered too
LongStay == 7
\* staff accounts; staff 1 is the administrator
NumStaff == 2
\* cash closings that may be created
MaxClosings == 2

VARIABLES
    now,                 \* the clock, utc_now(), as a local hour count
    daily_counters,      \* table daily_counters: business_date -> last_seq
    daily_tag_counters,  \* table daily_tag_counters: business_date -> last_seq
    orders,              \* table orders: order_id -> row
    issued,              \* history: identifiers handed to callers, in order
    calls,               \* history: number of counter calls begun, per kind and date
    started,             \* history: number of requests begun in the interleaved specifications
    cash_closings,       \* table cash_closings: closing_id -> row
    cash_closing_audits, \* table cash_closing_audits, in insertion order
    req                  \* per request slot: the request in flight, its position and its Row

vars == <<now, daily_counters, daily_tag_counters, orders, issued, calls, started,
          cash_closings, cash_closing_audits, req>>

\* ------------------------------------------------------------ small helpers
None == {}
Some(v) == {v}
Val(o) == CHOOSE v \in o : TRUE
IsNone(o) == o = {}

Max2(a, b) == IF a >= b THEN a ELSE b
Min2(a, b) == IF a <= b THEN a ELSE b

Dates == 0..MaxDay
\* datetime.astimezone(JST).date() and .time()
DateOf(t) == t \div 24
HourOf(t) == t % 24

\* str(int) and str.isdigit() / int(str) on decimal strings
Digits == <<"0", "1", "2", "3", "4", "5", "6", "7", "8", "9">>
DigitChars == {Digits[i] : i \in 1..10}
DigitVal(c) == (CHOOSE i \in 1..10 : Digits[i] = c) - 1
RECURSIVE ToDecimal(_)
ToDecimal(n) ==
    IF n < 10 THEN <<Digits[n + 1]>>
    ELSE ToDecimal(n \div 10) \o <<Digits[(n % 10) + 1]>>
IsDigitStr(s) == Len(s) > 0 /\ \A i \in 1..Len(s) : s[i] \in DigitChars
RECURSIVE ParseInt(_)
ParseInt(s) ==
    IF Len(s) = 0 THEN 0
    ELSE 10 * ParseInt(SubSeq(s, 1, Len(s) - 1)) + DigitVal(s[Len(s)])

\* ----------------------------------------------------------------- pricing
SUITCASE_DAILY_RATE == 800
BACKPACK_DAILY_RATE == 500
SET_DAILY_RATE == 1200

\* a pricing that matches no sets: every bag at its own rate
calculate_price_per_dayNoSets(suitcase_qty, backpack_qty) ==
    IF suitcase_qty < 0 \/ backpack_qty < 0
    THEN [ok |-> FALSE, set_qty |-> 0, price_per_day |-> 0]
    ELSE [ok |-> TRUE,
          set_qty |-> 0,
          price_per_day |-> suitcase_qty * SUITCASE_DAILY_RATE
                            + backpack_qty * BACKPACK_DAILY_RATE]

\* calculate_price_per_day; a negative quantity raises ValueError
calculate_price_per_day(suitcase_qty, backpack_qty) ==
    IF suitcase_qty < 0 \/ backpack_qty < 0
    THEN [ok |-> FALSE, set_qty |-> 0, price_per_day |-> 0]
    ELSE LET set_qty == Min2(suitcase_qty, backpack_qty)
         IN [ok |-> TRUE,
             set_qty |-> set_qty,
             price_per_day |-> set_qty * SET_DAILY_RATE
                               + (suitcase_qty - set_qty) * SUITCASE_DAILY_RATE
                               + (backpack_qty - set_qty) * BACKPACK_DAILY_RATE]

\* a table whose lower bounds are exclusive
discount_rate_for_daysExclusive(storage_days) ==
    IF storage_days > 60 THEN 20
    ELSE IF storage_days > 30 THEN 15
    ELSE IF storage_days > 14 THEN 10
    ELSE IF storage_days > 7 THEN 5
    ELSE 0

\* discount_rate_for_days, as a percentage (0.20 is 20)
discount_rate_for_days(storage_days) ==
    IF storage_days >= 60 THEN 20
    ELSE IF storage_days >= 30 THEN 15
    ELSE IF storage_days >= 14 THEN 10
    ELSE IF storage_days >= 7 THEN 5
    ELSE 0

\* Python round(): the integer nearest to num/den, a tie going to the even one
RoundHalfEven(num, den) ==
    LET q == num \div den
        r == num % den
    IN IF 2 * r < den THEN q
       ELSE IF 2 * r > den THEN q + 1
       ELSE IF q % 2 = 0 THEN q ELSE q + 1

\* a prepaid amount that drops the fraction instead of rounding
calculate_prepaid_amountTruncates(price_per_day, expected_storage_days) ==
    LET discount_rate == discount_rate_for_days(expected_storage_days)
        gross == price_per_day * expected_storage_days
    IN [discount_rate |-> discount_rate,
        prepaid |-> (gross * (100 - discount_rate)) \div 100]

\* calculate_prepaid_amount: (discount_rate, int(round(gross * (1.0 - discount_rate))))
calculate_prepaid_amount(price_per_day, expected_storage_days) ==
    LET discount_rate == discount_rate_for_days(expected_storage_days)
        gross == price_per_day * expected_storage_days
    IN [discount_rate |-> discount_rate,
        prepaid |-> RoundHalfEven(gross * (100 - discount_rate), 100)]

\* ------------------------------------------------------------- flying pass
FLYING_PASS_TIERS == {"NONE", "BLUE", "SILVER", "GOLD", "PLATINUM", "BLACK"}
FLYING_PASS_FIXED_DISCOUNTS ==
    [t \in FLYING_PASS_TIERS |->
        CASE t = "NONE" -> 0
          [] t = "BLUE" -> 100
          [] t = "SILVER" -> 200
          [] t = "GOLD" -> 300
          [] t = "PLATINUM" -> 400
          [] t = "BLACK" -> 0]

\* str.upper() on the spellings the requests carry
Upper(s) ==
    CASE s = "blue" -> "BLUE"
      [] s = "black" -> "BLACK"
      [] s = "vip" -> "VIP"
      [] s = "final_close" -> "FINAL_CLOSE"
      [] s = "cash" -> "CASH"
      [] OTHER -> s

\* str.strip() on the spellings the requests carry
Strip(s) == IF s = " " THEN "" ELSE s

\* normalize_flying_pass_tier(raw_value, default); raw is optional
normalize_flying_pass_tier(raw_value, default) ==
    LET value == IF IsNone(raw_value) THEN "" ELSE Upper(Strip(Val(raw_value)))
    IN IF value \in FLYING_PASS_TIERS THEN value ELSE default

\* a discount that is not capped by the base amount
flying_pass_discount_amountUncapped(base_prepaid, tier) ==
    LET resolved_base == Max2(base_prepaid, 0)
        normalized_tier == normalize_flying_pass_tier(Some(tier), "NONE")
    IN IF normalized_tier = "BLACK" THEN resolved_base
       ELSE Max2(FLYING_PASS_FIXED_DISCOUNTS[normalized_tier], 0)

\* flying_pass_discount_amount; an absent tier is the empty string of
\* str(raw_value or "")
flying_pass_discount_amount(base_prepaid, tier) ==
    LET resolved_base == Max2(base_prepaid, 0)
        normalized_tier == normalize_flying_pass_tier(Some(tier), "NONE")
    IN IF normalized_tier = "BLACK" THEN resolved_base
       ELSE Min2(resolved_base, Max2(FLYING_PASS_FIXED_DISCOUNTS[normalized_tier], 0))

\* ----------------------------------------------------------------- storage
BUSINESS_OPEN_HOUR == 9
BUSINESS_CLOSE_HOUR == 21

\* validate_pickup_time_window: TRUE when no ValueError is raised
validate_pickup_time_window(pickup_at) ==
    BUSINESS_OPEN_HOUR <= HourOf(pickup_at) /\ HourOf(pickup_at) <= BUSINESS_CLOSE_HOUR

\* JST = ZoneInfo("Asia/Tokyo"): nine hours ahead of UTC, no summer time
JST_UTC_OFFSET == 9

\* to_jst on a UTC (or naive, taken as UTC) time given in whole hours: the
\* hours of the same instant on the local clock
to_jst(dt) == dt + JST_UTC_OFFSET

\* a day count that counts the nights only
calculate_storage_daysCountsNights(created_at, pickup_at) ==
    IF pickup_at < created_at
    THEN [ok |-> FALSE, days |-> 0]
    ELSE [ok |-> TRUE, days |-> Max2(DateOf(pickup_at) - DateOf(created_at), 1)]

\* calculate_storage_days on the two local times; ok = FALSE is the ValueError
calculate_storage_days(created_at, pickup_at) ==
    IF pickup_at < created_at
    THEN [ok |-> FALSE, days |-> 0]
    ELSE [ok |-> TRUE, days |-> Max2(DateOf(pickup_at) - DateOf(created_at) + 1, 1)]

\* ------------------------------------------------------- persistence layer
\* SupabaseDB.get: the row with that primary key, or None
DbGet(table, pk) == IF pk \in DOMAIN table THEN Some(table[pk]) ELSE None

\* SupabaseDB.update: writes only the Row's dirty columns to the row that has
\* the Row's primary key now; nothing is sent when no column is dirty
DbUpdate(table, pk, data, dirty) ==
    IF dirty = {} \/ pk \notin DOMAIN table THEN table
    ELSE [table EXCEPT ![pk] = [f \in DOMAIN @ |-> IF f \in dirty THEN data[f] ELSE @[f]]]

\* SupabaseDB.insert; the primary key is unique, a second insert of a key raises
DbInsertOk(table, pk) == pk \notin DOMAIN table
DbInsert(table, pk, row) == (pk :> row) @@ table

\* ------------------------------------------------------- sequence counters
\* f"{seq:03d}"
ZeroPad3(s) == IF Len(s) >= 3 THEN s ELSE [i \in 1..(3 - Len(s)) |-> "0"] \o s
FormatOrderId(prefix, business_date, seq) == <<prefix, business_date, ZeroPad3(ToDecimal(seq))>>

\* A variant of the write below that hands back the sequence it read instead
\* of the one it wrote; IdsAreOneTwoThree must tell it from the code's.
BuildSeqWriteReturnsRead(table, business_date, counter) ==
    IF IsNone(counter)
    THEN IF DbInsertOk(table, business_date)
         THEN [ok |-> TRUE,
               table |-> DbInsert(table, business_date, [last_seq |-> 1]),
               seq |-> 1]
         ELSE [ok |-> FALSE, table |-> table, seq |-> 0]
    ELSE [ok |-> TRUE,
          table |-> DbUpdate(table, business_date,
                             [last_seq |-> Val(counter).last_seq + 1], {"last_seq"}),
          seq |-> Val(counter).last_seq]

\* The counter rows hold one column besides the key, last_seq.
\* build_order_id / build_tag_no after their db.get returned counter: the
\* table as the insert or update leaves it and the sequence handed back
\* (ok = FALSE: the insert raised, the key being there by now)
BuildSeqWrite(table, business_date, counter) ==
    IF IsNone(counter)
    THEN IF DbInsertOk(table, business_date)
         THEN [ok |-> TRUE,
               table |-> DbInsert(table, business_date, [last_seq |-> 1]),
               seq |-> 1]
         ELSE [ok |-> FALSE, table |-> table, seq |-> 0]
    ELSE LET last_seq == Val(counter).last_seq + 1
         IN [ok |-> TRUE,
             table |-> DbUpdate(table, business_date, [last_seq |-> last_seq], {"last_seq"}),
             seq |-> last_seq]

build_order_id(table, now_utc) ==
    LET business_date == DateOf(now_utc)
    IN BuildSeqWrite(table, business_date, DbGet(table, business_date))

build_tag_no(table, now_utc) ==
    LET business_date == DateOf(now_utc)
    IN BuildSeqWrite(table, business_date, DbGet(table, business_date))

\* the last_seq of a counter row, 0 when there is no row
LastSeq(table, business_date) ==
    IF business_date \in DOMAIN table THEN table[business_date].last_seq ELSE 0

\* ------------------------------------------------------------------ orders
MAX_BAG_QTY == 99
CUSTOMER_PAYMENT_METHODS == {"PAY_QR", "CASH"}
STAFF_PAYMENT_METHODS == {"PAY_QR", "CASH"}

\* validate_bag_quantities: TRUE when no HTTPException is raised
validate_bag_quantities(suitcase_qty, backpack_qty) ==
    /\ ~(suitcase_qty < 0 \/ backpack_qty < 0)
    /\ ~(suitcase_qty > MAX_BAG_QTY \/ backpack_qty > MAX_BAG_QTY)
    /\ ~(suitcase_qty = 0 /\ backpack_qty = 0)

\* build_new_order_record (name, phone, companion_count, note, the image
\* paths, consent_checked, manual_entry and staff_id are left out: no
\* operation below reads them)
build_new_order_record(order_id, t, suitcase_qty, backpack_qty, set_qty, pickup_at, expected_storage_days, price_per_day, discount_rate, prepaid_amount, payment_method, tag_no) ==
    [order_id |-> order_id,
     created_at |-> t,
     suitcase_qty |-> suitcase_qty,
     backpack_qty |-> backpack_qty,
     set_qty |-> set_qty,
     expected_pickup_at |-> pickup_at,
     expected_storage_days |-> expected_storage_days,
     actual_storage_days |-> None,
     extra_days |-> 0,
     price_per_day |-> price_per_day,
     discount_rate |-> discount_rate,
     prepaid_amount |-> prepaid_amount,
     flying_pass_tier |-> "NONE",
     flying_pass_discount_amount |-> 0,
     staff_prepaid_override_amount |-> None,
     extra_amount |-> 0,
     final_amount |-> prepaid_amount,
     payment_method |-> payment_method,
     status |-> "PAYMENT_PENDING",
     tag_no |-> tag_no,
     actual_pickup_at |-> None]

\* A Row (supabase_client.Row): the column values read, and the names of the
\* columns assigned since (Row.__setattr__ marks a column dirty on every
\* assignment, changed or not)
RowOf(data) == [data |-> data, dirty |-> {}]
SetCol(row, col, v) == [data |-> [row.data EXCEPT ![col] = v], dirty |-> row.dirty \cup {col}]

\* a recalculation that forgets the recorded override when no amount is given
recalculate_order_prepaidDropsOverride(order, expected_storage_days, flying_pass_tier, submitted_prepaid_amount) ==
    LET d0 == IF IsNone(expected_storage_days)
              THEN (IF order.data.expected_storage_days = 0 THEN 1
                    ELSE order.data.expected_storage_days)
              ELSE Val(expected_storage_days)
        resolved_days == IF d0 < 1 THEN 1 ELSE d0
        resolved_tier == normalize_flying_pass_tier(
                             IF IsNone(flying_pass_tier) THEN Some(order.data.flying_pass_tier)
                             ELSE flying_pass_tier, "NONE")
        calc == calculate_prepaid_amount(order.data.price_per_day, resolved_days)
        member_discount == flying_pass_discount_amount(calc.prepaid, resolved_tier)
        auto_prepaid == Max2(calc.prepaid - member_discount, 0)
        resolved_prepaid ==
            IF IsNone(submitted_prepaid_amount) THEN auto_prepaid
            ELSE Max2(Val(submitted_prepaid_amount), 0)
        override_amount ==
            IF IsNone(submitted_prepaid_amount) THEN None
            ELSE IF resolved_prepaid # auto_prepaid THEN Some(resolved_prepaid) ELSE None
        r1 == SetCol(order, "expected_storage_days", resolved_days)
        r2 == SetCol(r1, "discount_rate", calc.discount_rate)
        r3 == SetCol(r2, "flying_pass_tier", resolved_tier)
        r4 == SetCol(r3, "flying_pass_discount_amount", member_discount)
        r5 == SetCol(r4, "staff_prepaid_override_amount", override_amount)
        r6 == SetCol(r5, "prepaid_amount", resolved_prepaid)
    IN SetCol(r6, "final_amount", resolved_prepaid + order.data.extra_amount)

\* a recalculation that records every submitted or kept amount as the
\* override, the automatic amount included
recalculate_order_prepaidRecordsAll(order, expected_storage_days, flying_pass_tier, submitted_prepaid_amount) ==
    LET d0 == IF IsNone(expected_storage_days)
              THEN (IF order.data.expected_storage_days = 0 THEN 1
                    ELSE order.data.expected_storage_days)
              ELSE Val(expected_storage_days)
        resolved_days == IF d0 < 1 THEN 1 ELSE d0
        resolved_tier == normalize_flying_pass_tier(
                             IF IsNone(flying_pass_tier) THEN Some(order.data.flying_pass_tier)
                             ELSE flying_pass_tier, "NONE")
        calc == calculate_prepaid_amount(order.data.price_per_day, resolved_days)
        member_discount == flying_pass_discount_amount(calc.prepaid, resolved_tier)
        auto_prepaid == Max2(calc.prepaid - member_discount, 0)
        resolved_prepaid ==
            IF IsNone(submitted_prepaid_amount)
            THEN IF IsNone(order.data.staff_prepaid_override_amount)
                 THEN auto_prepaid
                 ELSE Max2(Val(order.data.staff_prepaid_override_amount), 0)
            ELSE Max2(Val(submitted_prepaid_amount), 0)
        override_amount ==
            IF IsNone(submitted_prepaid_amount) /\ IsNone(order.data.staff_prepaid_override_amount)
            THEN None
            ELSE Some(resolved_prepaid)
        r1 == SetCol(order, "expected_storage_days", resolved_days)
        r2 == SetCol(r1, "discount_rate", calc.discount_rate)
        r3 == SetCol(r2, "flying_pass_tier", resolved_tier)
        r4 == SetCol(r3, "flying_pass_discount_amount", member_discount)
        r5 == SetCol(r4, "staff_prepaid_override_amount", override_amount)
        r6 == SetCol(r5, "prepaid_amount", resolved_prepaid)
    IN SetCol(r6, "final_amount", resolved_prepaid + order.data.extra_amount)

\* recalculate_order_prepaid; the three keyword arguments are optional
recalculate_order_prepaid(order, expected_storage_days, flying_pass_tier, submitted_prepaid_amount) ==
    LET d0 == IF IsNone(expected_storage_days)
              THEN (IF order.data.expected_storage_days = 0 THEN 1
                    ELSE order.data.expected_storage_days)
              ELSE Val(expected_storage_days)
        resolved_days == IF d0 < 1 THEN 1 ELSE d0
        resolved_tier == normalize_flying_pass_tier(
                             IF IsNone(flying_pass_tier) THEN Some(order.data.flying_pass_tier)
                             ELSE flying_pass_tier, "NONE")
        calc == calculate_prepaid_amount(order.data.price_per_day, resolved_days)
        member_discount == flying_pass_discount_amount(calc.prepaid, resolved_tier)
        auto_prepaid == Max2(calc.prepaid - member_discount, 0)
        resolved_prepaid ==
            IF IsNone(submitted_prepaid_amount)
            THEN IF IsNone(order.data.staff_prepaid_override_amount)
                 THEN auto_prepaid
                 ELSE Max2(Val(order.data.staff_prepaid_override_amount), 0)
            ELSE Max2(Val(submitted_prepaid_amount), 0)
        override_amount ==
            IF IsNone(submitted_prepaid_amount) /\ IsNone(order.data.staff_prepaid_override_amount)
            THEN None
            ELSE IF resolved_prepaid # auto_prepaid THEN Some(resolved_prepaid) ELSE None
        r1 == SetCol(order, "expected_storage_days", resolved_days)
        r2 == SetCol(r1, "discount_rate", calc.discount_rate)
        r3 == SetCol(r2, "flying_pass_tier", resolved_tier)
        r4 == SetCol(r3, "flying_pass_discount_amount", member_discount)
        r5 == SetCol(r4, "staff_prepaid_override_amount", override_amount)
        r6 == SetCol(r5, "prepaid_amount", resolved_prepaid)
    IN SetCol(r6, "final_amount", resolved_prepaid + order.data.extra_amount)

\* a pickup completion that charges the difference of the days even when the
\* order is picked up before the expected day
apply_pickup_completionNoFloor(order, t) ==
    LET actual == calculate_storage_days(order.data.created_at, t)
        extra_days == actual.days - order.data.expected_storage_days
        extra_amount == extra_days * order.data.price_per_day
        r1 == SetCol(order, "actual_pickup_at", Some(t))
        r2 == SetCol(r1, "actual_storage_days", Some(actual.days))
        r3 == SetCol(r2, "extra_days", extra_days)
        r4 == SetCol(r3, "extra_amount", extra_amount)
        r5 == SetCol(r4, "final_amount", order.data.prepaid_amount + extra_amount)
    IN IF actual.ok THEN [ok |-> TRUE, row |-> SetCol(r5, "status", "PICKED_UP")]
       ELSE [ok |-> FALSE, row |-> order]

\* apply_pickup_completion at time t; ok = FALSE is calculate_storage_days' ValueError
apply_pickup_completion(order, t) ==
    LET actual == calculate_storage_days(order.data.created_at, t)
        extra_days == Max2(actual.days - order.data.expected_storage_days, 0)
        extra_amount == extra_days * order.data.price_per_day
        r1 == SetCol(order, "actual_pickup_at", Some(t))
        r2 == SetCol(r1, "actual_storage_days", Some(actual.days))
        r3 == SetCol(r2, "extra_days", extra_days)
        r4 == SetCol(r3, "extra_amount", extra_amount)
        r5 == SetCol(r4, "final_amount", order.data.prepaid_amount + extra_amount)
    IN IF actual.ok THEN [ok |-> TRUE, row |-> SetCol(r5, "status", "PICKED_UP")]
       ELSE [ok |-> FALSE, row |-> order]

\* A variant of undo_pickup_completion that leaves final_amount as the pickup
\* set it; FinalIsPrepaidPlusExtra must tell it from the code's.
undo_pickup_completionKeepsFinal(order) ==
    LET r1 == SetCol(order, "actual_pickup_at", None)
        r2 == SetCol(r1, "actual_storage_days", None)
        r3 == SetCol(r2, "extra_days", 0)
        r4 == SetCol(r3, "extra_amount", 0)
    IN SetCol(r4, "status",
              IF order.data.payment_method \subseteq STAFF_PAYMENT_METHODS
                 /\ ~IsNone(order.data.payment_method)
              THEN "PAID" ELSE "PAYMENT_PENDING")

\* an undo that calls the order PAID whether or not a payment is recorded
undo_pickup_completionAlwaysPaid(order) ==
    LET r1 == SetCol(order, "actual_pickup_at", None)
        r2 == SetCol(r1, "actual_storage_days", None)
        r3 == SetCol(r2, "extra_days", 0)
        r4 == SetCol(r3, "extra_amount", 0)
        r5 == SetCol(r4, "final_amount", order.data.prepaid_amount)
    IN SetCol(r5, "status", "PAID")

undo_pickup_completion(order) ==
    LET r1 == SetCol(order, "actual_pickup_at", None)
        r2 == SetCol(r1, "actual_storage_days", None)
        r3 == SetCol(r2, "extra_days", 0)
        r4 == SetCol(r3, "extra_amount", 0)
        r5 == SetCol(r4, "final_amount", order.data.prepaid_amount)
    IN SetCol(r5, "status",
              IF order.data.payment_method \subseteq STAFF_PAYMENT_METHODS
                 /\ ~IsNone(order.data.payment_method)
              THEN "PAID" ELSE "PAYMENT_PENDING")

\* The handlers below are the code between a request's db.get and its
\* db.update: from the Row read (and the tag counters, which build_tag_no
\* reads and writes at once when it is reached) to
\*   ok    FALSE when the request ends in an exception before db.update,
\*   row   the Row handed to db.update,
\*   tags  the tag counter table, tag_seq the tag sequence consumed (optional).

\* "if tag_no: order.tag_no = tag_no / elif not order.tag_no: build_tag_no(...)"
AssignTag(order, tag_no, tags) ==
    IF Len(tag_no) > 0
    THEN [ok |-> TRUE, row |-> SetCol(order, "tag_no", tag_no), tags |-> tags, tag_seq |-> None]
    ELSE IF Len(order.data.tag_no) = 0
    THEN LET b == build_tag_no(tags, order.data.created_at)
         IN IF b.ok
            THEN [ok |-> TRUE, row |-> SetCol(order, "tag_no", ToDecimal(b.seq)),
                  tags |-> b.table, tag_seq |-> Some(b.seq)]
            ELSE [ok |-> FALSE, row |-> order, tags |-> tags, tag_seq |-> None]
    ELSE [ok |-> TRUE, row |-> order, tags |-> tags, tag_seq |-> None]

Rejected(order, tags) == [ok |-> FALSE, row |-> order, tags |-> tags, tag_seq |-> None]

\* staff_inline_update_order; the payload gives payment_method and
\* payment_status as strings ("" when absent), the tier and the prepaid
\* amount as optional values
staff_inline_update_order(order, tags, tag_no, payment_method, payment_status, tier_raw, expected_pickup, submitted_prepaid_amount) ==
    LET flying_pass_tier == normalize_flying_pass_tier(tier_raw, order.data.flying_pass_tier)
        r1 == SetCol(order, "expected_pickup_at", expected_pickup)
        t == AssignTag(r1, tag_no, tags)
        r2 == IF payment_method # "" THEN SetCol(t.row, "payment_method", Some(payment_method))
              ELSE IF IsNone(t.row.data.payment_method)
              THEN SetCol(t.row, "payment_method", Some("PAY_QR"))
              ELSE t.row
        days == calculate_storage_days(order.data.created_at, expected_pickup)
        r3 == IF r2.data.status # "PICKED_UP"
              THEN recalculate_order_prepaid(r2, Some(days.days), Some(flying_pass_tier),
                                             submitted_prepaid_amount)
              ELSE r2
        r4 == IF r3.data.status # "PICKED_UP" /\ payment_status \in {"PAYMENT_PENDING", "PAID"}
              THEN SetCol(r3, "status", payment_status)
              ELSE r3
    IN IF payment_method # "" /\ payment_method \notin STAFF_PAYMENT_METHODS
       THEN Rejected(order, tags)
       ELSE IF payment_status # "" /\ payment_status \notin {"PAYMENT_PENDING", "PAID"}
       THEN Rejected(order, tags)
       ELSE IF ~IsNone(submitted_prepaid_amount) /\ Val(submitted_prepaid_amount) < 0
       THEN Rejected(order, tags)
       ELSE IF ~validate_pickup_time_window(expected_pickup)
       THEN Rejected(order, tags)
       ELSE IF ~t.ok
       THEN Rejected(order, tags)
       ELSE IF r2.data.status # "PICKED_UP" /\ ~days.ok
       THEN [ok |-> FALSE, row |-> order, tags |-> t.tags, tag_seq |-> t.tag_seq]
       ELSE IF r2.data.status = "PICKED_UP"
               /\ (~IsNone(submitted_prepaid_amount)
                   \/ flying_pass_tier # normalize_flying_pass_tier(
                                             Some(order.data.flying_pass_tier), "NONE"))
       THEN [ok |-> FALSE, row |-> order, tags |-> t.tags, tag_seq |-> t.tag_seq]
       ELSE [ok |-> TRUE, row |-> r4, tags |-> t.tags, tag_seq |-> t.tag_seq]

\* staff_inline_pickup_order at time t: nothing is written for a PICKED_UP order
staff_inline_pickup_order(order, tags, t) ==
    IF order.data.status # "PICKED_UP"
    THEN LET a == apply_pickup_completion(order, t)
         IN [ok |-> a.ok, row |-> a.row, tags |-> tags, tag_seq |-> None]
    ELSE [ok |-> TRUE, row |-> order, tags |-> tags, tag_seq |-> None]

\* staff_inline_undo_pickup_order and staff_undo_picked_up
staff_undo_picked_up(order, tags) ==
    IF order.data.status = "PICKED_UP"
    THEN [ok |-> TRUE, row |-> undo_pickup_completion(order), tags |-> tags, tag_seq |-> None]
    ELSE [ok |-> TRUE, row |-> order, tags |-> tags, tag_seq |-> None]

staff_inline_undo_pickup_order(order, tags) == staff_undo_picked_up(order, tags)

\* a payment that does not look at the status of the order
staff_mark_paidAnyStatus(order, tags, payment_method, tag_no) ==
    LET method == Upper(Strip(payment_method))
        r1 == SetCol(order, "status", "PAID")
        r2 == SetCol(r1, "payment_method", Some(method))
        t == AssignTag(r2, tag_no, tags)
    IN IF method \notin STAFF_PAYMENT_METHODS
       THEN Rejected(order, tags)
       ELSE IF ~t.ok THEN Rejected(order, tags)
       ELSE t

\* staff_mark_paid; method is the submitted payment_method, stripped and in
\* upper case
staff_mark_paid(order, tags, payment_method, tag_no) ==
    LET method == Upper(Strip(payment_method))
        r1 == SetCol(order, "status", "PAID")
        r2 == SetCol(r1, "payment_method", Some(method))
        t == AssignTag(r2, tag_no, tags)
    IN IF order.data.status \notin {"PAYMENT_PENDING", "PAID"}
       THEN Rejected(order, tags)
       ELSE IF method \notin STAFF_PAYMENT_METHODS
       THEN Rejected(order, tags)
       ELSE IF ~t.ok THEN Rejected(order, tags)
       ELSE t

\* staff_update_order; status_value is "" when the form leaves it out
staff_update_order(order, tags, tag_no, expected_pickup, status_value) ==
    LET t == AssignTag(order, tag_no, tags)
        r1 == SetCol(t.row, "expected_pickup_at", expected_pickup)
        days == calculate_storage_days(order.data.created_at, expected_pickup)
        r2 == IF r1.data.status # "PICKED_UP"
              THEN recalculate_order_prepaid(r1, Some(days.days), None, None)
              ELSE r1
        r3 == IF r2.data.status = "PICKED_UP" /\ status_value = "PAID"
              THEN SetCol(r2, "status", "PAID")
              ELSE IF r2.data.status \in {"PAYMENT_PENDING", "PAID"}
                      /\ status_value \in {"PAYMENT_PENDING", "PAID"}
              THEN SetCol(r2, "status", status_value)
              ELSE r2
    IN IF status_value # "" /\ status_value \notin {"PAYMENT_PENDING", "PAID", "PICKED_UP"}
       THEN Rejected(order, tags)
       ELSE IF ~validate_pickup_time_window(expected_pickup)
       THEN Rejected(order, tags)
       ELSE IF ~t.ok
       THEN Rejected(order, tags)
       ELSE IF r1.data.status # "PICKED_UP" /\ ~days.ok
       THEN [ok |-> FALSE, row |-> order, tags |-> t.tags, tag_seq |-> t.tag_seq]
       ELSE IF status_value = "PICKED_UP" /\ r2.data.status # "PICKED_UP"
       THEN [ok |-> FALSE, row |-> order, tags |-> t.tags, tag_seq |-> t.tag_seq]
       ELSE [ok |-> TRUE, row |-> r3, tags |-> t.tags, tag_seq |-> t.tag_seq]

\* staff_mark_picked_up at time t: apply_pickup_completion whatever the status
staff_mark_picked_up(order, tags, t) ==
    LET a == apply_pickup_completion(order, t)
    IN [ok |-> a.ok, row |-> a.row, tags |-> tags, tag_seq |-> None]

\* --------------------------------------------------- inputs of the requests
\* hours at which the clock is read, and hours a pickup time is given for
ClockHours == {12}
ClockTimes == {24 * d + h : d \in Dates, h \in ClockHours}
\* pickup times: 09:00 and 22:00 of the first date, and 21:00 of every
\* business date and of one date LongStay days after the last
PickupTimes == {9, 22} \cup {24 * d + 21 : d \in Dates \cup {MaxDay + LongStay}}
BagInputs == {<<2, 1>>, <<0, 0>>}
SubmitMethodInputs == {"CASH", "CARD"}
MethodInputs == {"", "CASH", "CARD"}
\* the payment_method field of the mark-paid form
MarkPaidInputs == MethodInputs \cup {"cash"}
PaymentStatusInputs == {"", "PAYMENT_PENDING", "PAID"}
StatusInputs == {"", "PAYMENT_PENDING", "PAID", "PICKED_UP"}
TierInputs == {None, Some("blue"), Some("vip")}
PrepaidInputs == {None, Some(1000)}
TagInputs == {<<>>, <<"3">>, <<"A">>}

NoIssued == [k \in {"ORDER", "TAG"} |-> [d \in Dates |-> <<>>]]
Issue(hist, kind, business_date, seq) ==
    [hist EXCEPT ![kind][business_date] = Append(@, seq)]
IssueTag(hist, order, tag_seq) ==
    IF IsNone(tag_seq) THEN hist
    ELSE Issue(hist, "TAG", DateOf(order.created_at), Val(tag_seq))

NoCalls == [k \in {"ORDER", "TAG"} |-> [d \in Dates |-> 0]]
Procs == 1..NumProcs
IdleReq == [p \in Procs |-> [op |-> "idle"]]

\* ---------------------------------------- requests run one after the other
Init ==
    /\ now = 12
    /\ daily_counters = <<>>
    /\ daily_tag_counters = <<>>
    /\ orders = <<>>
    /\ issued = NoIssued
    /\ calls = NoCalls
    /\ started = 0
    /\ cash_closings = <<>>
    /\ cash_closing_audits = <<>>
    /\ req = IdleReq

Tick ==
    /\ \E t \in ClockTimes : t > now /\ now' = t
    /\ UNCHANGED <<daily_counters, daily_tag_counters, orders, issued, calls, started, req, cash_closings, cash_closing_audits>>

\* customer_submit (prefix "") and create_manual_order (prefix "M", no payment
\* method, no images). img_ok = FALSE: save_image_file raises after
\* build_order_id has run.
CreateOrder(prefix, payment_method, bags, pickup_at, img_ok) ==
    LET expected == calculate_storage_days(now, pickup_at)
        pricing == calculate_price_per_day(bags[1], bags[2])
        calc == calculate_prepaid_amount(pricing.price_per_day, expected.days)
        o == build_order_id(daily_counters, now)
        order_id == FormatOrderId(prefix, DateOf(now), o.seq)
        tg == build_tag_no(daily_tag_counters, now)
        row == build_new_order_record(order_id, now, bags[1], bags[2], pricing.set_qty,
                                      pickup_at, expected.days, pricing.price_per_day,
                                      calc.discount_rate, calc.prepaid, payment_method,
                                      ToDecimal(tg.seq))
    IN /\ validate_bag_quantities(bags[1], bags[2])
       /\ validate_pickup_time_window(pickup_at)
       /\ expected.ok
       /\ ~(pickup_at < now)
       /\ LastSeq(daily_counters, DateOf(now)) < MaxSeq
       /\ LastSeq(daily_tag_counters, DateOf(now)) < MaxSeq
       /\ o.ok
       /\ daily_counters' = o.table
       /\ IF img_ok
          THEN /\ Cardinality(DOMAIN orders) < MaxOrders
               /\ tg.ok
               /\ daily_tag_counters' = tg.table
               /\ DbInsertOk(orders, order_id)
               /\ orders' = DbInsert(orders, order_id, row)
               /\ issued' = Issue(Issue(issued, "ORDER", DateOf(now), o.seq),
                                  "TAG", DateOf(now), tg.seq)
          ELSE /\ issued' = Issue(issued, "ORDER", DateOf(now), o.seq)
               /\ UNCHANGED <<daily_tag_counters, orders, cash_closings, cash_closing_audits>>
       /\ UNCHANGED <<now, calls, started, req, cash_closings, cash_closing_audits>>

CustomerSubmit ==
    \E m \in SubmitMethodInputs, bags \in BagInputs, pickup_at \in PickupTimes :
        /\ m \in CUSTOMER_PAYMENT_METHODS
        /\ CreateOrder("", Some(m), bags, pickup_at, TRUE)

CreateManualOrder ==
    \E bags \in BagInputs, pickup_at \in PickupTimes :
        CreateOrder("M", None, bags, pickup_at, TRUE)

\* A staff request on order id run to its end: the handler's result h is
\* written by db.update when the handler did not raise.
RunOrderRequest(id, h) ==
    /\ daily_tag_counters' = h.tags
    /\ issued' = IssueTag(issued, orders[id], h.tag_seq)
    /\ orders' = IF h.ok THEN DbUpdate(orders, id, h.row.data, h.row.dirty) ELSE orders
    /\ UNCHANGED <<now, daily_counters, calls, started, req, cash_closings, cash_closing_audits>>

StaffInlineUpdateOrder ==
    \E id \in DOMAIN orders, m \in MethodInputs, ps \in PaymentStatusInputs,
       tier \in TierInputs, pickup_at \in PickupTimes, amount \in PrepaidInputs :
        RunOrderRequest(id, staff_inline_update_order(RowOf(orders[id]), daily_tag_counters,
                                                      <<>>, m, ps, tier, pickup_at, amount))

StaffInlinePickupOrder ==
    \E id \in DOMAIN orders :
        RunOrderRequest(id, staff_inline_pickup_order(RowOf(orders[id]), daily_tag_counters, now))

StaffInlineUndoPickupOrder ==
    \E id \in DOMAIN orders :
        RunOrderRequest(id, staff_inline_undo_pickup_order(RowOf(orders[id]), daily_tag_counters))

StaffMarkPaid ==
    \E id \in DOMAIN orders, m \in MarkPaidInputs, tag_no \in TagInputs :
        RunOrderRequest(id, staff_mark_paid(RowOf(orders[id]), daily_tag_counters, m, tag_no))

StaffUpdateOrder ==
    \E id \in DOMAIN orders, pickup_at \in PickupTimes, st \in StatusInputs :
        RunOrderRequest(id, staff_update_order(RowOf(orders[id]), daily_tag_counters,
                                               <<>>, pickup_at, st))

StaffMarkPickedUp ==
    \E id \in DOMAIN orders :
        RunOrderRequest(id, staff_mark_picked_up(RowOf(orders[id]), daily_tag_counters, now))

StaffUndoPickedUp ==
    \E id \in DOMAIN orders :
        RunOrderRequest(id, staff_undo_picked_up(RowOf(orders[id]), daily_tag_counters))

Next ==
    \/ Tick
    \/ CustomerSubmit
    \/ CreateManualOrder
    \/ StaffInlineUpdateOrder
    \/ StaffInlinePickupOrder
    \/ StaffInlineUndoPickupOrder
    \/ StaffMarkPaid
    \/ StaffUpdateOrder
    \/ StaffMarkPickedUp
    \/ StaffUndoPickedUp

Spec == Init /\ [][Next]_vars

\* -------------------------------------------------- backfill, as computed
\* query(...).order_by("created_at ASC", "order_id ASC"): order ids compare as
\* the strings they stand for ("2024..." before "M-2024...", then date, then
\* the zero-padded sequence)
OrderIdLess(a, b) ==
    \/ a[1] = "" /\ b[1] = "M"
    \/ a[1] = b[1] /\ a[2] < b[2]
    \/ a[1] = b[1] /\ a[2] = b[2] /\ ParseInt(a[3]) < ParseInt(b[3])
RowLess(x, y) ==
    \/ x.created_at < y.created_at
    \/ x.created_at = y.created_at /\ OrderIdLess(x.order_id, y.order_id)
RECURSIVE SortRows(_)
SortRows(S) ==
    IF S = {} THEN <<>>
    ELSE LET m == CHOOSE x \in S : \A y \in S \ {x} : RowLess(x, y)
         IN <<m>> \o SortRows(S \ {m})
QueryOrders(table) == SortRows({table[id] : id \in DOMAIN table})

\* backfill_missing_tag_numbers, first loop: from the rows read, the tag
\* numbers to write (in order), last_by_day, and its keys in insertion order
RECURSIVE BackfillScan(_, _)
BackfillScan(rows, acc) ==
    IF Len(rows) = 0 THEN acc
    ELSE LET order == Head(rows)
             business_date == DateOf(order.created_at)
             current_last == IF business_date \in DOMAIN acc.last_by_day
                             THEN acc.last_by_day[business_date] ELSE 0
             days == IF business_date \in DOMAIN acc.last_by_day THEN acc.days
                     ELSE Append(acc.days, business_date)
             put(v) == (business_date :> v) @@ acc.last_by_day
         IN IF IsDigitStr(order.tag_no)
            THEN IF ParseInt(order.tag_no) > current_last
                 THEN BackfillScan(Tail(rows), [acc EXCEPT !.last_by_day = put(ParseInt(order.tag_no)),
                                                           !.days = days])
                 ELSE BackfillScan(Tail(rows), acc)
            ELSE BackfillScan(Tail(rows),
                     [last_by_day |-> put(current_last + 1),
                      days |-> days,
                      updates |-> Append(acc.updates,
                                         [order_id |-> order.order_id,
                                          tag_no |-> ToDecimal(current_last + 1)])])
BackfillPlan(table) ==
    BackfillScan(QueryOrders(table), [last_by_day |-> <<>>, days |-> <<>>, updates |-> <<>>])

\* second loop, one date: what is written for the counter row read
\* (ok = FALSE: the insert raised, which ends the whole function)
BackfillWrite(table, business_date, last_seq, counter) ==
    IF IsNone(counter)
    THEN IF DbInsertOk(table, business_date)
         THEN [ok |-> TRUE, table |-> DbInsert(table, business_date, [last_seq |-> last_seq])]
         ELSE [ok |-> FALSE, table |-> table]
    ELSE IF Val(counter).last_seq < last_seq
    THEN [ok |-> TRUE,
          table |-> DbUpdate(table, business_date, [last_seq |-> last_seq], {"last_seq"})]
    ELSE [ok |-> TRUE, table |-> table]

\* ------------------------------------- counter calls, one db call per step
\* A request slot p holds the call in flight: what it read, and for the
\* backfill its position and plan.
AllIdle == \A p \in Procs : req[p].op = "idle"
CanStart(p) == req[p].op = "idle" /\ started < MaxCalls

\* build_order_id line 9: counter = db.get(...)
OrderIdGet(p) ==
    LET business_date == DateOf(now)
    IN /\ CanStart(p)
       /\ LastSeq(daily_counters, business_date) < MaxSeq
       /\ req' = [req EXCEPT ![p] = [op |-> "build_order_id",
                                     business_date |-> business_date,
                                     counter |-> DbGet(daily_counters, business_date)]]
       /\ calls' = [calls EXCEPT !["ORDER"][business_date] = @ + 1]
       /\ started' = started + 1
       /\ UNCHANGED <<now, daily_counters, daily_tag_counters, orders, issued, cash_closings, cash_closing_audits>>

\* build_order_id lines 11-19: the insert or the update, and the return
OrderIdPut(p) ==
    /\ req[p].op = "build_order_id"
    /\ LET w == BuildSeqWrite(daily_counters, req[p].business_date, req[p].counter)
       IN /\ daily_counters' = w.table
          /\ issued' = IF w.ok THEN Issue(issued, "ORDER", req[p].business_date, w.seq)
                       ELSE issued
    /\ req' = [req EXCEPT ![p] = [op |-> "idle"]]
    /\ UNCHANGED <<now, daily_tag_counters, orders, calls, started, cash_closings, cash_closing_audits>>

\* build_tag_no line 24, for the current date or an earlier order's date
TagNoGet(p, business_date) ==
    /\ CanStart(p)
    /\ business_date <= DateOf(now)
    /\ LastSeq(daily_tag_counters, business_date) < MaxSeq
    /\ req' = [req EXCEPT ![p] = [op |-> "build_tag_no",
                                  business_date |-> business_date,
                                  counter |-> DbGet(daily_tag_counters, business_date)]]
    /\ calls' = [calls EXCEPT !["TAG"][business_date] = @ + 1]
    /\ started' = started + 1
    /\ UNCHANGED <<now, daily_counters, daily_tag_counters, orders, issued, cash_closings, cash_closing_audits>>

\* build_tag_no lines 26-34
TagNoPut(p) ==
    /\ req[p].op = "build_tag_no"
    /\ LET w == BuildSeqWrite(daily_tag_counters, req[p].business_date, req[p].counter)
       IN /\ daily_tag_counters' = w.table
          /\ issued' = IF w.ok THEN Issue(issued, "TAG", req[p].business_date, w.seq)
                       ELSE issued
    /\ req' = [req EXCEPT ![p] = [op |-> "idle"]]
    /\ UNCHANGED <<now, daily_counters, orders, calls, started, cash_closings, cash_closing_audits>>

\* backfill_missing_tag_numbers line 484: the query
BackfillQuery(p) ==
    /\ CanStart(p)
    /\ LET plan == BackfillPlan(orders)
       IN req' = [req EXCEPT ![p] = [op |-> "backfill",
                                     pc |-> "orders",
                                     updates |-> plan.updates,
                                     days |-> plan.days,
                                     last_by_day |-> plan.last_by_day,
                                     counter |-> None]]
    /\ started' = started + 1
    /\ UNCHANGED <<now, daily_counters, daily_tag_counters, orders, issued, calls, cash_closings, cash_closing_audits>>

\* line 501: db.update(order) of the next row that had no numeric tag
BackfillUpdateOrder(p) ==
    /\ req[p].op = "backfill" /\ req[p].pc = "orders"
    /\ Len(req[p].updates) > 0
    /\ LET u == Head(req[p].updates)
       IN orders' = DbUpdate(orders, u.order_id, [tag_no |-> u.tag_no], {"tag_no"})
    /\ req' = [req EXCEPT ![p].updates = Tail(@)]
    /\ UNCHANGED <<now, daily_counters, daily_tag_counters, issued, calls, started, cash_closings, cash_closing_audits>>

\* line 504: db.get of the next date's counter (the function returns when no date is left)
BackfillGet(p) ==
    /\ req[p].op = "backfill" /\ req[p].pc = "orders"
    /\ Len(req[p].updates) = 0
    /\ req' = [req EXCEPT ![p] =
                  IF Len(req[p].days) = 0 THEN [op |-> "idle"]
                  ELSE [req[p] EXCEPT !.pc = "put",
                                      !.counter = DbGet(daily_tag_counters, Head(req[p].days))]]
    /\ UNCHANGED <<now, daily_counters, daily_tag_counters, orders, issued, calls, started, cash_closings, cash_closing_audits>>

\* lines 505-510: the insert, the update, or nothing
BackfillPut(p) ==
    /\ req[p].op = "backfill" /\ req[p].pc = "put"
    /\ LET business_date == Head(req[p].days)
           w == BackfillWrite(daily_tag_counters, business_date,
                              req[p].last_by_day[business_date], req[p].counter)
       IN /\ daily_tag_counters' = w.table
          /\ req' = [req EXCEPT ![p] =
                        IF w.ok THEN [req[p] EXCEPT !.pc = "orders", !.days = Tail(@),
                                                    !.counter = None]
                        ELSE [op |-> "idle"]]
    /\ UNCHANGED <<now, daily_counters, orders, issued, calls, started, cash_closings, cash_closing_audits>>

\* States the sequential operations reach, from which the counter calls start:
\* an empty database, or one customer order of date 0 whose tag is the one it
\* was given ("1") or one staff entered at mark-paid ("3", "A").
SeedOrder(tag_no) ==
    LET s == [staff_mark_paid(
                 RowOf(build_new_order_record(FormatOrderId("", 0, 1), 12, 2, 1, 1, 21, 1,
                                              2000, 0, 2000, Some("CASH"), ToDecimal(1))),
                 <<>>, "CASH", tag_no).row.data EXCEPT !.tag_no = IF Len(tag_no) > 0 THEN tag_no ELSE @]
    IN s
InitCounters ==
    /\ now = 12
    /\ started = 0
    /\ cash_closings = <<>>
    /\ cash_closing_audits = <<>>
    /\ req = IdleReq
    /\ \/ /\ orders = <<>>
          /\ daily_counters = <<>>
          /\ daily_tag_counters = <<>>
          /\ issued = NoIssued
          /\ calls = NoCalls
       \/ /\ \E tag_no \in TagInputs :
                orders = (FormatOrderId("", 0, 1) :> SeedOrder(tag_no))
          /\ daily_counters = (0 :> [last_seq |-> 1])
          /\ daily_tag_counters = (0 :> [last_seq |-> 1])
          /\ issued = [k \in {"ORDER", "TAG"} |-> [d \in Dates |-> IF d = 0 THEN <<1>> ELSE <<>>]]
          /\ calls = [k \in {"ORDER", "TAG"} |-> [d \in Dates |-> IF d = 0 THEN 1 ELSE 0]]

NextCounters ==
    \/ Tick
    \/ \E p \in Procs : OrderIdGet(p)
    \/ \E p \in Procs : OrderIdPut(p)
    \/ \E p \in Procs, d \in Dates : TagNoGet(p, d)
    \/ \E p \in Procs : TagNoPut(p)
    \/ \E p \in Procs : BackfillQuery(p)
    \/ \E p \in Procs : BackfillUpdateOrder(p)
    \/ \E p \in Procs : BackfillGet(p)
    \/ \E p \in Procs : BackfillPut(p)

\* counter calls and the backfill, interleaved at their db calls
SpecCounters == InitCounters /\ [][NextCounters]_vars

\* the same calls, none begun while another is in flight
NextCountersSeq ==
    \/ Tick
    \/ \E p \in Procs : AllIdle /\ OrderIdGet(p)
    \/ \E p \in Procs : OrderIdPut(p)
    \/ \E p \in Procs, d \in Dates : AllIdle /\ TagNoGet(p, d)
    \/ \E p \in Procs : TagNoPut(p)
    \/ \E p \in Procs : AllIdle /\ BackfillQuery(p)
    \/ \E p \in Procs : BackfillUpdateOrder(p)
    \/ \E p \in Procs : BackfillGet(p)
    \/ \E p \in Procs : BackfillPut(p)

SpecCountersSeq == InitCounters /\ [][NextCountersSeq]_vars

\* --------------------------------------------- properties of the counters
OrderCallInFlight(d) ==
    \E p \in Procs : req[p].op = "build_order_id" /\ req[p].business_date = d
IsOneToN(s, n) == Len(s) = n /\ {s[i] : i \in 1..Len(s)} = 1..n

\* C1: N concurrent build_order_id calls for one date return exactly the
\* numbers 1..N, without duplicate or gap, whatever the interleaving of their
\* reads and writes: once no call is in flight, the numbers handed out for a
\* date are a permutation of 1..(calls begun for that date).
ConcurrentIdsAreOneToN ==
    AllIdle => \A d \in Dates : IsOneToN(issued["ORDER"][d], calls["ORDER"][d])

\* C9: successive build_order_id calls for one date that do not overlap
\* return 1, 2, 3, ...: the first creates the counter at 1 and each later one
\* returns the previous value plus one, which is also the stored last_seq.
IdsAreOneTwoThree ==
    \A d \in Dates :
        /\ \A i \in 1..Len(issued["ORDER"][d]) : issued["ORDER"][d][i] = i
        /\ ~OrderCallInFlight(d) =>
              /\ Len(issued["ORDER"][d]) = calls["ORDER"][d]
              /\ LastSeq(daily_counters, d) = calls["ORDER"][d]
\* three calls in a row on a date that had no counter
ThreeIdsInARow ==
    /\ orders = <<>>
    /\ \E d \in Dates : issued["ORDER"][d] = <<1, 2, 3>> /\ ~OrderCallInFlight(d)

\* C10: for every date, the last_seq stored in daily_counters and in
\* daily_tag_counters never decreases, whatever the interleaving of
\* build_order_id, build_tag_no and backfill_missing_tag_numbers.
LastSeqNeverDecreases ==
    [][\A d \in Dates :
          /\ LastSeq(daily_counters', d) >= LastSeq(daily_counters, d)
          /\ LastSeq(daily_tag_counters', d) >= LastSeq(daily_tag_counters, d)]_vars

\* ----------------------------------------------- properties of the orders
\* C2: in every state reached by order operations each run to completion
\* (creation, recalculation through update and inline-update, mark-paid,
\* pickup, pickup undo), every order has
\* final_amount = prepaid_amount + extra_amount.
FinalIsPrepaidPlusExtra ==
    \A id \in DOMAIN orders :
        orders[id].final_amount = orders[id].prepaid_amount + orders[id].extra_amount
\* a picked-up order that stayed longer than paid for, its prepaid amount set by staff
LatePickupWithOverride ==
    \E id \in DOMAIN orders :
        /\ orders[id].status = "PICKED_UP"
        /\ orders[id].extra_amount > 0
        /\ ~IsNone(orders[id].staff_prepaid_override_amount)

PriceFields(o) ==
    <<o.price_per_day, o.discount_rate, o.flying_pass_discount_amount, o.prepaid_amount,
      o.extra_days, o.extra_amount, o.final_amount>>

\* C6: while an order's status is PICKED_UP, no operation other than the
\* pickup undo changes its price fields (price_per_day, discount_rate,
\* membership discount amount, prepaid_amount, extra_days, extra_amount,
\* final_amount): every step that is not an undo leaves them as they were.
PickedUpPricesFrozen ==
    [][\/ StaffUndoPickedUp
       \/ StaffInlineUndoPickupOrder
       \/ \A id \in DOMAIN orders :
             orders[id].status = "PICKED_UP" =>
                PriceFields(orders'[id]) = PriceFields(orders[id])]_vars

\* C7: for every order whose status is PAYMENT_PENDING or PAID, whatever its
\* payment_method, apply_pickup_completion followed by
\* undo_pickup_completion restores status, prepaid_amount and final_amount.
PickupUndoRoundTrip ==
    \A id \in DOMAIN orders :
        orders[id].status \in {"PAYMENT_PENDING", "PAID"} =>
           LET a == apply_pickup_completion(RowOf(orders[id]), now)
               u == undo_pickup_completion(a.row).data
           IN a.ok =>
                 /\ u.status = orders[id].status
                 /\ u.prepaid_amount = orders[id].prepaid_amount
                 /\ u.final_amount = orders[id].final_amount

\* ------------------------- staff requests on an order, one db call per step
\* The requests that overlap: the handler, and what its payload gives.
InlineUpdateRequests ==
    {[h |-> "staff_inline_update_order", payment_method |-> m, payment_status |-> ps,
      expected_pickup |-> e, prepaid |-> a] :
        m \in {""}, ps \in PaymentStatusInputs,
        e \in {21, 24 * MaxDay + 21}, a \in PrepaidInputs}
NoPayload(h) ==
    [h |-> h, payment_method |-> "", payment_status |-> "", expected_pickup |-> 0,
     prepaid |-> None]
OrderRequests ==
    InlineUpdateRequests
    \cup {NoPayload("staff_inline_pickup_order"), NoPayload("staff_inline_undo_pickup_order"),
          [NoPayload("staff_mark_paid") EXCEPT !.payment_method = "CASH"]}

\* the handler of request d on the Row read, the clock showing t
HandleOrderRequest(d, order, tags, t) ==
    CASE d.h = "staff_inline_update_order" ->
            staff_inline_update_order(order, tags, <<>>, d.payment_method, d.payment_status,
                                      None, d.expected_pickup, d.prepaid)
      [] d.h = "staff_inline_pickup_order" -> staff_inline_pickup_order(order, tags, t)
      [] d.h = "staff_inline_undo_pickup_order" -> staff_inline_undo_pickup_order(order, tags)
      [] d.h = "staff_mark_paid" -> staff_mark_paid(order, tags, d.payment_method, <<>>)

\* db.get("orders", ...) and the handler's work on the Row it returned; the
\* request keeps the Row until its db.update
OrderRequestBegin(p) ==
    \E id \in DOMAIN orders, d \in OrderRequests :
        LET h == HandleOrderRequest(d, RowOf(orders[id]), daily_tag_counters, now)
        IN /\ req[p].op = "idle"
           /\ req' = [req EXCEPT ![p] = [op |-> "order", order_id |-> id, d |-> d, t |-> now,
                                         seq |-> started + 1, read |-> orders[id],
                                         read_tags |-> daily_tag_counters, result |-> h]]
           /\ daily_tag_counters' = h.tags
           /\ issued' = IssueTag(issued, orders[id], h.tag_seq)
           /\ started' = started + 1
           /\ UNCHANGED <<now, daily_counters, orders, calls, cash_closings, cash_closing_audits>>

\* db.update(order): the dirty columns of the Row, when the handler did not raise
OrderRequestCommit(p) ==
    /\ req[p].op = "order"
    /\ orders' = IF req[p].result.ok
                 THEN DbUpdate(orders, req[p].order_id, req[p].result.row.data,
                               req[p].result.row.dirty)
                 ELSE orders
    /\ req' = [req EXCEPT ![p].op = "done"]
    /\ UNCHANGED <<now, daily_counters, daily_tag_counters, issued, calls, started, cash_closings, cash_closing_audits>>

NextOrders ==
    \/ Tick
    \/ CustomerSubmit
    \/ \E p \in Procs : OrderRequestBegin(p)
    \/ \E p \in Procs : OrderRequestCommit(p)

\* a customer's order, then one request of each staff session, interleaved
SpecOrders == Init /\ [][NextOrders]_vars

\* the order row after the requests of the sessions ps run one after the other
RECURSIVE SerialRun(_, _, _)
SerialRun(ps, data, tags) ==
    IF Len(ps) = 0 THEN data
    ELSE LET h == HandleOrderRequest(req[Head(ps)].d, RowOf(data), tags, req[Head(ps)].t)
         IN SerialRun(Tail(ps), IF h.ok THEN h.row.data ELSE data, h.tags)
Perms(S) ==
    {f \in [1..Cardinality(S) -> S] : \A i, j \in 1..Cardinality(S) : f[i] = f[j] => i = j}

\* C8: no lost update on an order: when the requests of the staff sessions
\* on one order overlap or follow each other, the persisted row, once all
\* have ended, is the row that running them one after the other, in some
\* order, from the row the first of them read, would have left.
NoLostUpdate ==
    (\A p \in Procs : req[p].op = "done") =>
        \E first \in Procs :
            /\ req[first].seq = 1
            /\ \E perm \in Perms(Procs) :
                  orders[req[first].order_id]
                      = SerialRun(perm, req[first].read, req[first].read_tags)

\* ----------------------------------------------------------- cash closing
\* A cash_closings row holds the ten count_<denomination> columns as one
\* column counts (they are always written together); owner_name, note and
\* the created/updated timestamps are left out.
COIN_BILL_DENOMS == {10000, 5000, 2000, 1000, 500, 100, 50, 10, 5, 1}
CASH_CLOSING_TYPES == {"MORNING_HANDOVER", "FINAL_CLOSE"}
Staff == 1..NumStaff
Admins == {1}

parse_cash_closing_type(raw_value) ==
    [ok |-> Upper(Strip(raw_value)) \in CASH_CLOSING_TYPES, value |-> Upper(Strip(raw_value))]

\* the query of ensure_unique_cash_closing_type and of staff_cash_closing_create:
\* the rows with that date and type, but the excluded one
ClosingsWith(table, business_date, closing_type, exclude_closing_id) ==
    {id \in DOMAIN table : /\ table[id].business_date = business_date
                           /\ table[id].closing_type = closing_type
                           /\ id \notin exclude_closing_id}
\* TRUE when it does not raise
ensure_unique_cash_closing_type(table, business_date, closing_type, exclude_closing_id) ==
    ClosingsWith(table, business_date, closing_type, exclude_closing_id) = {}

calc_cash_total(counts) ==
    10000 * counts[10000] + 5000 * counts[5000] + 2000 * counts[2000] + 1000 * counts[1000]
    + 500 * counts[500] + 100 * counts[100] + 50 * counts[50] + 10 * counts[10]
    + 5 * counts[5] + counts[1]
\* a parse of the counts that lets negative counts through
parse_denomination_countsAnyCount(counts) == TRUE
\* TRUE when it does not raise
parse_denomination_counts(counts) == \A d \in COIN_BILL_DENOMS : counts[d] >= 0
\* a resolution of the QR amount that never takes the reported one
parse_actual_qr_amountAlwaysAuto(raw_value, auto_qr_amount) == auto_qr_amount
parse_actual_qr_amount(raw_value, auto_qr_amount) ==
    IF raw_value < 0 THEN auto_qr_amount ELSE raw_value

RECURSIVE SumPrepaid(_, _)
SumPrepaid(table, ids) ==
    IF ids = {} THEN 0
    ELSE LET id == CHOOSE x \in ids : TRUE
         IN table[id].prepaid_amount + SumPrepaid(table, ids \ {id})
\* a summary that leaves out the filter on the status
summarize_order_sales_for_dateAnyStatus(table, business_date) ==
    LET sold == {id \in DOMAIN table : DateOf(table[id].created_at) = business_date}
        paid_by(m) == {id \in sold : table[id].payment_method = Some(m)}
    IN [cash_amount |-> SumPrepaid(table, paid_by("CASH")),
        qr_amount |-> SumPrepaid(table, paid_by("PAY_QR"))]
summarize_order_sales_for_date(table, business_date) ==
    LET sold == {id \in DOMAIN table : /\ DateOf(table[id].created_at) = business_date
                                        /\ table[id].status \in {"PAID", "PICKED_UP"}}
        paid_by(m) == {id \in sold : table[id].payment_method = Some(m)}
    IN [cash_amount |-> SumPrepaid(table, paid_by("CASH")),
        qr_amount |-> SumPrepaid(table, paid_by("PAY_QR"))]

build_cash_closing_fields(counts, actual_qr_amount, table, business_date) ==
    LET total_amount == calc_cash_total(counts)
        sales == summarize_order_sales_for_date(table, business_date)
        resolved_actual_qr == parse_actual_qr_amount(actual_qr_amount, sales.qr_amount)
    IN [ok |-> resolved_actual_qr >= 0,
        fields |-> [total_amount |-> total_amount,
                    paypay_amount |-> sales.qr_amount,
                    actual_qr_amount |-> resolved_actual_qr,
                    qr_difference_amount |-> resolved_actual_qr - sales.qr_amount,
                    check_auto_amount |-> sales.cash_amount,
                    expected_amount |-> sales.cash_amount,
                    actual_amount |-> total_amount,
                    difference_amount |-> total_amount - sales.cash_amount]]

\* several assignments to a Row
SetCols(row, cols) ==
    [data |-> [f \in DOMAIN row.data |-> IF f \in DOMAIN cols THEN cols[f] ELSE row.data[f]],
     dirty |-> row.dirty \cup DOMAIN cols]
ChecksAre(b) ==
    [check_cash_match |-> b, check_qr_match |-> b, check_pending_items |-> b,
     check_handover_note |-> b]
\* the payloads the handlers hand to create_cash_closing_audit: the summary
\* of the row (create and update), and those of submit and of verify-lock
SummaryPayload(data) ==
    [business_date |-> data.business_date, closing_type |-> data.closing_type,
     workflow_status |-> data.workflow_status, total_amount |-> data.total_amount,
     difference_amount |-> data.difference_amount,
     qr_difference_amount |-> data.qr_difference_amount]
SubmitPayload(data) ==
    [workflow_status |-> data.workflow_status,
     submitted_by_staff_id |-> data.submitted_by_staff_id]
VerifyLockPayload(data, checks) ==
    [workflow_status |-> data.workflow_status,
     submitted_by_staff_id |-> data.submitted_by_staff_id,
     verified_by_staff_id |-> data.verified_by_staff_id] @@ checks
\* create_cash_closing_audit: the entry inserted; the payload is stored as
\* the JSON object of these keys and values
create_cash_closing_audit(closing_id, action, staff_id, reason, payload) ==
    [closing_id |-> closing_id, action |-> action, staff_id |-> staff_id,
     reason |-> IF Strip(reason) = "" THEN None ELSE Some(Strip(reason)),
     payload |-> payload]

\* staff_cash_closing_create after its query found no row: ok = FALSE when it
\* raises, else the record to insert (closing_id is given by the insert)
staff_cash_closing_create(table, staff, business_date, closing_type, counts, actual_qr_amount) ==
    LET computed == build_cash_closing_fields(counts, actual_qr_amount, table, business_date)
    IN [ok |-> parse_denomination_counts(counts) /\ computed.ok,
        data |-> [business_date |-> business_date, closing_type |-> closing_type,
                  workflow_status |-> "DRAFT", counts |-> counts,
                  submitted_by_staff_id |-> None, submitted_at |-> None,
                  verified_by_staff_id |-> None, verified_at |-> None,
                  staff_id |-> staff]
                 @@ computed.fields @@ ChecksAre(FALSE)]

\* a create that does not look for a row with the same date and type
CreateRequestIgnoresExisting(table, order_table, staff, business_date, closing_type, counts, actual_qr_amount) ==
    LET type == parse_cash_closing_type(closing_type)
        h == staff_cash_closing_create(order_table, staff, business_date, type.value, counts,
                                       actual_qr_amount)
    IN [ok |-> type.ok /\ h.ok, edit_id |-> {}, insert |-> type.ok /\ h.ok, data |-> h.data]

\* staff_cash_closing_create as a whole request: ok = FALSE when it raises;
\* edit_id holds the rows the query found, to one of which the answer
\* redirects (edit_id=...); insert says whether db.insert and the CREATE
\* audit are reached, with the record data
CreateRequest(table, order_table, staff, business_date, closing_type, counts, actual_qr_amount) ==
    LET type == parse_cash_closing_type(closing_type)
        existing == ClosingsWith(table, business_date, type.value, {})
        h == staff_cash_closing_create(order_table, staff, business_date, type.value, counts,
                                       actual_qr_amount)
    IN [ok |-> type.ok /\ (existing # {} \/ h.ok),
        edit_id |-> IF type.ok THEN existing ELSE {},
        insert |-> type.ok /\ existing = {} /\ h.ok,
        data |-> h.data]

\* an update that unlocks a LOCKED row without asking for a reason
staff_cash_closing_updateNoReason(row, unique, table, staff, business_date, closing_type, counts, actual_qr_amount, admin_edit_reason) ==
    LET was_locked == row.data.workflow_status = "LOCKED"
        was_submitted == row.data.workflow_status = "SUBMITTED"
        computed == build_cash_closing_fields(counts, actual_qr_amount, table, business_date)
        r == SetCols(row, [business_date |-> business_date, closing_type |-> closing_type,
                           counts |-> counts, workflow_status |-> "DRAFT",
                           submitted_by_staff_id |-> None, submitted_at |-> None,
                           verified_by_staff_id |-> None, verified_at |-> None,
                           staff_id |-> staff]
                          @@ computed.fields @@ ChecksAre(FALSE))
    IN [ok |-> /\ unique
               /\ ~(was_locked /\ staff \notin Admins)
               /\ ~(/\ was_submitted
                    /\ staff \notin Admins
                    /\ ~IsNone(row.data.submitted_by_staff_id)
                    /\ row.data.submitted_by_staff_id # Some(staff))
               /\ parse_denomination_counts(counts)
               /\ computed.ok,
        row |-> r,
        audit |-> create_cash_closing_audit(row.data.closing_id,
                     IF was_locked THEN "ADMIN_UNLOCK_UPDATE" ELSE "UPDATE",
                     staff, admin_edit_reason, SummaryPayload(r.data))]

\* an update that leaves the verifier of the row in place
staff_cash_closing_updateKeepsVerifier(row, unique, table, staff, business_date, closing_type, counts, actual_qr_amount, admin_edit_reason) ==
    LET was_locked == row.data.workflow_status = "LOCKED"
        was_submitted == row.data.workflow_status = "SUBMITTED"
        computed == build_cash_closing_fields(counts, actual_qr_amount, table, business_date)
        r == SetCols(row, [business_date |-> business_date, closing_type |-> closing_type,
                           counts |-> counts, workflow_status |-> "DRAFT",
                           submitted_by_staff_id |-> None, submitted_at |-> None,
                           staff_id |-> staff]
                          @@ computed.fields @@ ChecksAre(FALSE))
    IN [ok |-> /\ unique
               /\ ~(was_locked /\ staff \notin Admins)
               /\ ~(was_locked /\ Strip(admin_edit_reason) = "")
               /\ ~(/\ was_submitted
                    /\ staff \notin Admins
                    /\ ~IsNone(row.data.submitted_by_staff_id)
                    /\ row.data.submitted_by_staff_id # Some(staff))
               /\ parse_denomination_counts(counts)
               /\ computed.ok,
        row |-> r,
        audit |-> create_cash_closing_audit(row.data.closing_id,
                     IF was_locked THEN "ADMIN_UNLOCK_UPDATE" ELSE "UPDATE",
                     staff, admin_edit_reason, SummaryPayload(r.data))]

\* The handlers below are the code from the request's db.get to its audit:
\* ok = FALSE when it raises, else the Row for db.update and the audit row.

\* an update that stores the counts and not the fields computed from them
staff_cash_closing_updateCountsOnly(row, unique, table, staff, business_date, closing_type, counts, actual_qr_amount, admin_edit_reason) ==
    LET was_locked == row.data.workflow_status = "LOCKED"
        was_submitted == row.data.workflow_status = "SUBMITTED"
        computed == build_cash_closing_fields(counts, actual_qr_amount, table, business_date)
        r == SetCols(row, [business_date |-> business_date, closing_type |-> closing_type,
                           counts |-> counts, workflow_status |-> "DRAFT",
                           submitted_by_staff_id |-> None, submitted_at |-> None,
                           verified_by_staff_id |-> None, verified_at |-> None,
                           staff_id |-> staff]
                          @@ ChecksAre(FALSE))
    IN [ok |-> /\ unique
               /\ ~(was_locked /\ staff \notin Admins)
               /\ ~(was_locked /\ Strip(admin_edit_reason) = "")
               /\ ~(/\ was_submitted
                    /\ staff \notin Admins
                    /\ ~IsNone(row.data.submitted_by_staff_id)
                    /\ row.data.submitted_by_staff_id # Some(staff))
               /\ parse_denomination_counts(counts)
               /\ computed.ok,
        row |-> r,
        audit |-> create_cash_closing_audit(row.data.closing_id,
                     IF was_locked THEN "ADMIN_UNLOCK_UPDATE" ELSE "UPDATE",
                     staff, admin_edit_reason, SummaryPayload(r.data))]

staff_cash_closing_update(row, unique, table, staff, business_date, closing_type, counts, actual_qr_amount, admin_edit_reason) ==
    LET was_locked == row.data.workflow_status = "LOCKED"
        was_submitted == row.data.workflow_status = "SUBMITTED"
        computed == build_cash_closing_fields(counts, actual_qr_amount, table, business_date)
        r == SetCols(row, [business_date |-> business_date, closing_type |-> closing_type,
                           counts |-> counts, workflow_status |-> "DRAFT",
                           submitted_by_staff_id |-> None, submitted_at |-> None,
                           verified_by_staff_id |-> None, verified_at |-> None,
                           staff_id |-> staff]
                          @@ computed.fields @@ ChecksAre(FALSE))
    IN [ok |-> /\ unique
               /\ ~(was_locked /\ staff \notin Admins)
               /\ ~(was_locked /\ Strip(admin_edit_reason) = "")
               /\ ~(/\ was_submitted
                    /\ staff \notin Admins
                    /\ ~IsNone(row.data.submitted_by_staff_id)
                    /\ row.data.submitted_by_staff_id # Some(staff))
               /\ parse_denomination_counts(counts)
               /\ computed.ok,
        row |-> r,
        audit |-> create_cash_closing_audit(row.data.closing_id,
                     IF was_locked THEN "ADMIN_UNLOCK_UPDATE" ELSE "UPDATE",
                     staff, admin_edit_reason, SummaryPayload(r.data))]

\* a submit that does not look at the lock
staff_cash_closing_submitWhenLocked(row, staff, t) ==
    LET r == SetCols(row, [workflow_status |-> "SUBMITTED",
                           submitted_by_staff_id |-> Some(staff), submitted_at |-> Some(t),
                           verified_by_staff_id |-> None, verified_at |-> None,
                           staff_id |-> staff] @@ ChecksAre(FALSE))
    IN [ok |-> TRUE,
        row |-> r,
        audit |-> create_cash_closing_audit(row.data.closing_id, "SUBMIT", staff, "",
                                            SubmitPayload(r.data))]

\* a verify-lock that lets the submitter verify their own closing
staff_cash_closing_verify_lockBySubmitter(row, staff, checks, t) ==
    LET r == SetCols(row, [workflow_status |-> "LOCKED",
                           verified_by_staff_id |-> Some(staff), verified_at |-> Some(t),
                           staff_id |-> staff] @@ ChecksAre(TRUE))
    IN [ok |-> /\ row.data.workflow_status = "SUBMITTED"
               /\ ~IsNone(row.data.submitted_by_staff_id)
               /\ \A c \in DOMAIN checks : checks[c],
        row |-> r,
        audit |-> create_cash_closing_audit(row.data.closing_id, "VERIFY_LOCK", staff, "",
                                            VerifyLockPayload(r.data, checks))]

staff_cash_closing_submit(row, staff, t) ==
    LET r == SetCols(row, [workflow_status |-> "SUBMITTED",
                           submitted_by_staff_id |-> Some(staff), submitted_at |-> Some(t),
                           verified_by_staff_id |-> None, verified_at |-> None,
                           staff_id |-> staff] @@ ChecksAre(FALSE))
    IN [ok |-> row.data.workflow_status # "LOCKED",
        row |-> r,
        audit |-> create_cash_closing_audit(row.data.closing_id, "SUBMIT", staff, "",
                                            SubmitPayload(r.data))]

\* checks: the four boxes of the form, TRUE for "on"
\* a verify-lock that leaves the checklist flags as they were
staff_cash_closing_verify_lockLeavesFlags(row, staff, checks, t) ==
    LET r == SetCols(row, [workflow_status |-> "LOCKED",
                           verified_by_staff_id |-> Some(staff), verified_at |-> Some(t),
                           staff_id |-> staff])
    IN [ok |-> /\ row.data.workflow_status = "SUBMITTED"
               /\ ~IsNone(row.data.submitted_by_staff_id)
               /\ row.data.submitted_by_staff_id # Some(staff)
               /\ \A c \in DOMAIN checks : checks[c],
        row |-> r,
        audit |-> create_cash_closing_audit(row.data.closing_id, "VERIFY_LOCK", staff, "",
                                            VerifyLockPayload(r.data, checks))]

staff_cash_closing_verify_lock(row, staff, checks, t) ==
    LET r == SetCols(row, [workflow_status |-> "LOCKED",
                           verified_by_staff_id |-> Some(staff), verified_at |-> Some(t),
                           staff_id |-> staff] @@ ChecksAre(TRUE))
    IN [ok |-> /\ row.data.workflow_status = "SUBMITTED"
               /\ ~IsNone(row.data.submitted_by_staff_id)
               /\ row.data.submitted_by_staff_id # Some(staff)
               /\ \A c \in DOMAIN checks : checks[c],
        row |-> r,
        audit |-> create_cash_closing_audit(row.data.closing_id, "VERIFY_LOCK", staff, "",
                                            VerifyLockPayload(r.data, checks))]

\* ------------------------------- cash closing requests, their reads and writes
\* A request is two steps: its reads and its checks on what it read, then
\* its writes (the audit row and the row itself, issued one after the other).
NoCoins == [d \in COIN_BILL_DENOMS |-> 0]
CountInputs == {NoCoins, [NoCoins EXCEPT ![1] = -1]}
RecountInputs == {[NoCoins EXCEPT ![1000] = 1]}
CashDates == {0}
ClosingTypeInputs == {"MORNING_HANDOVER", "final_close"}
QrInputs == {-1}
ReasonInputs == {"", " ", "fix"}
AllOn == [c \in DOMAIN ChecksAre(TRUE) |-> TRUE]
CheckInputs == {AllOn, [AllOn EXCEPT !.check_qr_match = FALSE]}
CashUnchanged == UNCHANGED <<now, daily_counters, daily_tag_counters, orders, issued, calls>>

\* staff_cash_closing_create: the query for an existing row (which ends the
\* request with a redirect), the parsing and the computed fields
CashCreateBegin(p) ==
    \E staff \in Staff, business_date \in CashDates, raw \in ClosingTypeInputs,
       counts \in CountInputs :
        LET type == parse_cash_closing_type(raw)
            h == CreateRequest(cash_closings, orders, staff, business_date, raw, counts, -1)
        IN /\ CanStart(p)
           /\ type.ok
           /\ started' = started + 1
           /\ req' = [req EXCEPT ![p] =
                         IF h.insert
                         THEN [op |-> "cash_create", staff |-> staff, data |-> h.data]
                         ELSE [op |-> "idle"]]
           /\ UNCHANGED <<cash_closings, cash_closing_audits>>
           /\ CashUnchanged

\* db.insert("cash_closings", ...) and the CREATE audit
CashCreateInsert(p) ==
    /\ req[p].op = "cash_create"
    /\ Cardinality(DOMAIN cash_closings) < MaxClosings
    /\ LET closing_id == Cardinality(DOMAIN cash_closings) + 1
       IN /\ cash_closings' = DbInsert(cash_closings, closing_id,
                                       [closing_id |-> closing_id] @@ req[p].data)
          /\ cash_closing_audits' =
                Append(cash_closing_audits,
                       create_cash_closing_audit(closing_id, "CREATE", req[p].staff, "",
                                                 SummaryPayload(req[p].data)))
    /\ req' = [req EXCEPT ![p] = [op |-> "idle"]]
    /\ UNCHANGED started
    /\ CashUnchanged

\* a request on an existing row has read it and run its handler: it holds
\* the handler's Row and audit row, or has ended in an exception
CashRowRead(p, staff, h) ==
    /\ CanStart(p)
    /\ started' = started + 1
    /\ req' = [req EXCEPT ![p] =
                  IF h.ok THEN [op |-> "cash_write", staff |-> staff, row |-> h.row,
                                audit |-> h.audit]
                  ELSE [op |-> "idle"]]
    /\ UNCHANGED <<cash_closings, cash_closing_audits>>
    /\ CashUnchanged

CashUpdateBegin(p) ==
    \E closing_id \in DOMAIN cash_closings, staff \in Staff, business_date \in CashDates,
       raw \in ClosingTypeInputs, counts \in RecountInputs, qr \in QrInputs,
       admin_edit_reason \in ReasonInputs :
        LET type == parse_cash_closing_type(raw)
        IN /\ type.ok
           /\ CashRowRead(p, staff,
                 staff_cash_closing_update(
                    RowOf(cash_closings[closing_id]),
                    ensure_unique_cash_closing_type(cash_closings, business_date, type.value,
                                                    {closing_id}),
                    orders, staff, business_date, type.value, counts, qr, admin_edit_reason))

CashSubmitBegin(p) ==
    \E closing_id \in DOMAIN cash_closings, staff \in Staff :
        CashRowRead(p, staff, staff_cash_closing_submit(RowOf(cash_closings[closing_id]),
                                                        staff, now))

CashVerifyLockBegin(p) ==
    \E closing_id \in DOMAIN cash_closings, staff \in Staff, checks \in CheckInputs :
        CashRowRead(p, staff, staff_cash_closing_verify_lock(RowOf(cash_closings[closing_id]),
                                                             staff, checks, now))

\* a write that puts its audit entry in the place of the last one
CashRowWriteOverLastEntry(p) ==
    /\ req[p].op = "cash_write"
    /\ cash_closing_audits' =
          IF cash_closing_audits = <<>> THEN <<req[p].audit>>
          ELSE [cash_closing_audits EXCEPT ![Len(cash_closing_audits)] = req[p].audit]
    /\ cash_closings' = DbUpdate(cash_closings, req[p].row.data.closing_id,
                                 req[p].row.data, req[p].row.dirty)
    /\ req' = [req EXCEPT ![p] = [op |-> "idle"]]
    /\ UNCHANGED started
    /\ CashUnchanged

\* create_cash_closing_audit(...) then db.update(row)
CashRowWrite(p) ==
    /\ req[p].op = "cash_write"
    /\ cash_closing_audits' = Append(cash_closing_audits, req[p].audit)
    /\ cash_closings' = DbUpdate(cash_closings, req[p].row.data.closing_id,
                                 req[p].row.data, req[p].row.dirty)
    /\ req' = [req EXCEPT ![p] = [op |-> "idle"]]
    /\ UNCHANGED started
    /\ CashUnchanged

\* States the requests reach one at a time, from which the interleaved
\* requests start: no closing yet, or one closing submitted by staff 2.
SeedClosing ==
    LET created == [closing_id |-> 1]
                   @@ staff_cash_closing_create(<<>>, 2, 0, "MORNING_HANDOVER", NoCoins, -1).data
    IN staff_cash_closing_submit(RowOf(created), 2, 12).row.data
InitCash ==
    /\ now = 12
    /\ daily_counters = <<>>
    /\ daily_tag_counters = <<>>
    /\ orders = <<>>
    /\ issued = NoIssued
    /\ calls = NoCalls
    /\ started = 0
    /\ req = IdleReq
    /\ \/ /\ cash_closings = <<>>
          /\ cash_closing_audits = <<>>
       \/ /\ cash_closings = (1 :> SeedClosing)
          /\ cash_closing_audits =
                <<create_cash_closing_audit(1, "CREATE", 2, "",
                      SummaryPayload([SeedClosing EXCEPT !.workflow_status = "DRAFT"])),
                  create_cash_closing_audit(1, "SUBMIT", 2, "", SubmitPayload(SeedClosing))>>

NextCash ==
    \/ \E p \in Procs : CashCreateBegin(p)
    \/ \E p \in Procs : CashCreateInsert(p)
    \/ \E p \in Procs : CashUpdateBegin(p)
    \/ \E p \in Procs : CashSubmitBegin(p)
    \/ \E p \in Procs : CashVerifyLockBegin(p)
    \/ \E p \in Procs : CashRowWrite(p)

SpecCash == InitCash /\ [][NextCash]_vars

\* ----------------------------------------- properties of the cash closings
\* C3: segregation of duties: in every reachable state, those reached by
\* interleaved submit, update and verify-lock requests included, a row with
\* workflow_status LOCKED has a recorded submitter and a recorded verifier,
\* and they are different staff.
LockedHasTwoSigners ==
    \A id \in DOMAIN cash_closings :
        cash_closings[id].workflow_status = "LOCKED" =>
            /\ ~IsNone(cash_closings[id].submitted_by_staff_id)
            /\ ~IsNone(cash_closings[id].verified_by_staff_id)
            /\ cash_closings[id].submitted_by_staff_id # cash_closings[id].verified_by_staff_id

\* C4: once a cash closing is LOCKED, none of its fields changes except by
\* the write of an update request made by an administrator with a non-empty
\* reason and audited as ADMIN_UNLOCK_UPDATE, whatever the interleaving.
LockedChangesOnlyByAdminUnlock ==
    [][\A id \in DOMAIN cash_closings :
          (cash_closings[id].workflow_status = "LOCKED"
           /\ cash_closings'[id] # cash_closings[id]) =>
             \E p \in Procs :
                /\ req[p].op = "cash_write" /\ req'[p].op = "idle"
                /\ req[p].row.data.closing_id = id
                /\ req[p].staff \in Admins
                /\ req[p].audit.action = "ADMIN_UNLOCK_UPDATE"
                /\ ~IsNone(req[p].audit.reason)]_vars

\* C5: in every reachable state there is at most one cash_closings row per
\* (business_date, closing_type), whatever the sequence or interleaving of
\* create requests and of update requests that change a row's date or type.
OneClosingPerDateAndType ==
    \A a, b \in DOMAIN cash_closings :
        (/\ cash_closings[a].business_date = cash_closings[b].business_date
         /\ cash_closings[a].closing_type = cash_closings[b].closing_type) => a = b

\* ------------------------------------ submissions whose upload may fail
\* customer_submit with either outcome of save_image_file, which runs
\* between build_order_id and the insert of the order
CustomerSubmitUpload ==
    \E m \in SubmitMethodInputs, bags \in BagInputs, pickup_at \in PickupTimes,
       img_ok \in BOOLEAN :
        /\ m \in CUSTOMER_PAYMENT_METHODS
        /\ CreateOrder("", Some(m), bags, pickup_at, img_ok)

NextSubmit ==
    \/ Tick
    \/ CustomerSubmitUpload
    \/ CreateManualOrder
    \/ StaffMarkPaid
    \/ StaffUpdateOrder
    \/ StaffMarkPickedUp
    \/ StaffUndoPickedUp

\* order creation and the form-based staff requests, one request at a time
SpecSubmit == Init /\ [][NextSubmit]_vars

\* C11: a counter is never left advanced by a request that fails: whenever
\* a request leaves daily_counters or daily_tag_counters advanced for a
\* date, it has persisted the order row that carries the new sequence (as
\* its order_id, or as the tag_no it newly holds).
CounterAdvanceIsCarried ==
    [][\A d \in Dates :
          /\ LastSeq(daily_counters', d) > LastSeq(daily_counters, d) =>
                \E id \in DOMAIN orders' \ DOMAIN orders :
                    /\ id[2] = d
                    /\ id[3] = ZeroPad3(ToDecimal(LastSeq(daily_counters', d)))
          /\ LastSeq(daily_tag_counters', d) > LastSeq(daily_tag_counters, d) =>
                \E id \in DOMAIN orders' :
                    /\ orders'[id].tag_no = ToDecimal(LastSeq(daily_tag_counters', d))
                    /\ id \in DOMAIN orders => orders[id].tag_no # orders'[id].tag_no]_vars


\* ------------------------------------------------ the status of an order
\* the transitions of a status: payment, pickup, and the undo of a pickup
PaysOrder(a, b) == a = "PAYMENT_PENDING" /\ b = "PAID"
PicksUpOrder(a, b) == a \in {"PAYMENT_PENDING", "PAID"} /\ b = "PICKED_UP"
UndoesPickup(old, new) ==
    /\ old.status = "PICKED_UP"
    /\ new.status \in {"PAID", "PAYMENT_PENDING"}
    /\ new = undo_pickup_completion(RowOf(old)).data

\* C12: every step that changes the status of an order takes it from
\* PAYMENT_PENDING to PAID, from PAYMENT_PENDING or PAID to PICKED_UP, or out
\* of PICKED_UP by the undo of the pickup (the row becomes what
\* undo_pickup_completion makes of it); so PAID never goes back to
\* PAYMENT_PENDING and nothing but the undo leaves PICKED_UP
StatusMovesForward ==
    [][\A id \in DOMAIN orders \cap DOMAIN orders' :
          orders'[id].status # orders[id].status =>
              \/ PaysOrder(orders[id].status, orders'[id].status)
              \/ PicksUpOrder(orders[id].status, orders'[id].status)
              \/ UndoesPickup(orders[id], orders'[id])]_vars


\* a request that is turned down: it ends in an error and writes nothing
TurnedDown(r, order) == ~r.ok /\ r.row.data = order.data

\* C13: a pickup completion asked for a PICKED_UP order, and an undo asked
\* for an order that is not PICKED_UP, end in an error and change no field
\* of the order, by the form routes and by the inline routes alike
WrongStateIsTurnedDown ==
    \A id \in DOMAIN orders :
        LET order == RowOf(orders[id])
        IN /\ order.data.status = "PICKED_UP" =>
                /\ TurnedDown(staff_mark_picked_up(order, daily_tag_counters, now), order)
                /\ TurnedDown(staff_inline_pickup_order(order, daily_tag_counters, now), order)
           /\ order.data.status # "PICKED_UP" =>
                /\ TurnedDown(staff_undo_picked_up(order, daily_tag_counters), order)
                /\ TurnedDown(staff_inline_undo_pickup_order(order, daily_tag_counters), order)


\* ------------------------------------------- the recalculation of a prepaid
\* the arguments a recalculation is called with: the days, the tier and the
\* amount staff submitted, each optional
RecalcDays == {None} \cup {Some(d) : d \in 1..(LongStay + 1)}
RecalcTiers == {None, Some("BLUE"), Some("BLACK")}
RecalcAmounts == {None, Some(0), Some(1000), Some(2000)}

\* an order as customer_submit stores it: two suitcases and a backpack, or
\* one suitcase, for one day
SubmittedOrders ==
    {build_new_order_record(FormatOrderId("", 0, 1), 12, bags[1], bags[2],
                            calculate_price_per_day(bags[1], bags[2]).set_qty, 21, 1,
                            calculate_price_per_day(bags[1], bags[2]).price_per_day, 0,
                            calculate_prepaid_amount(
                                calculate_price_per_day(bags[1], bags[2]).price_per_day, 1).prepaid,
                            Some("CASH"), ToDecimal(1)) : bags \in {<<2, 1>>, <<1, 0>>}}

InitRecalc ==
    /\ now = 12
    /\ daily_counters = <<>>
    /\ daily_tag_counters = <<>>
    /\ \E o \in SubmittedOrders : orders = (o.order_id :> o)
    /\ issued = NoIssued
    /\ calls = NoCalls
    /\ started = 0
    /\ cash_closings = <<>>
    /\ cash_closing_audits = <<>>
    /\ req = IdleReq

\* one call of recalculate_order_prepaid on a stored order, then db.update
Recalculate ==
    /\ \E id \in DOMAIN orders, days \in RecalcDays, tier \in RecalcTiers, amount \in RecalcAmounts :
           LET r == recalculate_order_prepaid(RowOf(orders[id]), days, tier, amount)
           IN orders' = DbUpdate(orders, id, r.data, r.dirty)
    /\ UNCHANGED <<now, daily_counters, daily_tag_counters, issued, calls, started, req, cash_closings, cash_closing_audits>>

NextRecalc == Recalculate
SpecRecalc == InitRecalc /\ [][NextRecalc]_vars

\* the amount a recalculation arrives at by itself
AutoPrepaid(o, days, tier) ==
    LET resolved_days == IF IsNone(days) THEN o.expected_storage_days ELSE Val(days)
        resolved_tier == IF IsNone(tier) THEN o.flying_pass_tier ELSE Val(tier)
        base == calculate_prepaid_amount(o.price_per_day, resolved_days).prepaid
    IN Max2(base - flying_pass_discount_amount(base, resolved_tier), 0)

\* what a recalculation with a submitted amount leaves in the order
SubmittedAmountIsTaken(o, days, tier, amount) ==
    LET r == recalculate_order_prepaid(RowOf(o), days, tier, amount).data
        auto == AutoPrepaid(o, days, tier)
    IN /\ r.prepaid_amount = Val(amount)
       /\ r.staff_prepaid_override_amount = IF Val(amount) # auto THEN amount ELSE None

\* C14: a recalculation given a staff-submitted amount stores that amount,
\* and records it as the override only when it differs from the automatic
\* amount max(base - membership discount, 0); a recalculation given no amount
\* stores the automatic amount and leaves no override recorded
RecalcWithoutAmountClearsOverride ==
    \A id \in DOMAIN orders : \A days \in RecalcDays, tier \in RecalcTiers, amount \in RecalcAmounts :
        LET o == orders[id]
            r == recalculate_order_prepaid(RowOf(o), days, tier, amount).data
        IN IF IsNone(amount)
           THEN /\ r.prepaid_amount = AutoPrepaid(o, days, tier)
                /\ r.staff_prepaid_override_amount = None
           ELSE SubmittedAmountIsTaken(o, days, tier, amount)

\* C14, as the code has it: a recalculation given no amount stores the
\* automatic amount only when no override is recorded; a recorded override
\* stays the prepaid amount, and stays recorded unless it equals the
\* automatic amount
RecalcWithoutAmountKeepsOverride ==
    \A id \in DOMAIN orders : \A days \in RecalcDays, tier \in RecalcTiers, amount \in RecalcAmounts :
        LET o == orders[id]
            r == recalculate_order_prepaid(RowOf(o), days, tier, amount).data
            auto == AutoPrepaid(o, days, tier)
            kept == o.staff_prepaid_override_amount
        IN IF ~IsNone(amount)
           THEN SubmittedAmountIsTaken(o, days, tier, amount)
           ELSE IF IsNone(kept)
           THEN r.prepaid_amount = auto /\ r.staff_prepaid_override_amount = None
           ELSE /\ r.prepaid_amount = Val(kept)
                /\ r.staff_prepaid_override_amount = IF Val(kept) # auto THEN kept ELSE None

\* an order that carries an override through a recalculation without amount
OverrideOutlivesRecalc ==
    \E id \in DOMAIN orders : \E days \in RecalcDays :
        LET o == orders[id]
            r == recalculate_order_prepaid(RowOf(o), days, None, None).data
        IN /\ ~IsNone(o.staff_prepaid_override_amount)
           /\ r.expected_storage_days # o.expected_storage_days
           /\ r.prepaid_amount = Val(o.staff_prepaid_override_amount)
           /\ r.prepaid_amount # AutoPrepaid(o, days, None)
           /\ r.staff_prepaid_override_amount = o.staff_prepaid_override_amount


\* ------------------------------------------------------ payment of an order
\* the order as stored after a request h on order id
Stored(id, h) == IF h.ok THEN DbUpdate(orders, id, h.row.data, h.row.dirty)[id] ELSE orders[id]

\* C15: staff_mark_paid succeeds only for an order in PAYMENT_PENDING or PAID
\* and a method (the submitted one, stripped and in upper case) that is CASH
\* or PAY_QR, and the stored order then has status PAID and that method as
\* payment_method; for a PICKED_UP order or any other method the request is
\* rejected and the stored order is unchanged
MarkPaidOnlyFromPendingOrPaid ==
    \A id \in DOMAIN orders : \A m \in MarkPaidInputs, tag_no \in TagInputs :
        LET h == staff_mark_paid(RowOf(orders[id]), daily_tag_counters, m, tag_no)
            allowed == /\ orders[id].status \in {"PAYMENT_PENDING", "PAID"}
                       /\ Upper(Strip(m)) \in {"CASH", "PAY_QR"}
        IN /\ h.ok => /\ allowed
                      /\ Stored(id, h).status = "PAID"
                      /\ Stored(id, h).payment_method = Some(Upper(Strip(m)))
           /\ allowed => h.ok
           /\ ~allowed => ~h.ok /\ Stored(id, h) = orders[id]

\* a PICKED_UP order that was paid by the mark-paid form, which gave its tag
PaidThenPickedUp ==
    \E id \in DOMAIN orders :
        /\ orders[id].status = "PICKED_UP"
        /\ orders[id].payment_method = Some("CASH")
        /\ orders[id].tag_no = <<"A">>
        /\ ~staff_mark_paid(RowOf(orders[id]), daily_tag_counters, "CASH", <<>>).ok


\* ------------------------------------------------------ pickup and its undo
\* C16: a step that takes an order from PAYMENT_PENDING or PAID to PICKED_UP
\* stores actual_storage_days = the storage days from created_at to now,
\* extra_days = max(actual - expected, 0), extra_amount = extra_days times
\* price_per_day, final_amount = prepaid_amount + extra_amount and
\* actual_pickup_at = now, and leaves prepaid_amount, expected_storage_days
\* and payment_method as they were
PickupChargesExtraDays ==
    [][\A id \in DOMAIN orders \cap DOMAIN orders' :
          LET o == orders[id]
              n == orders'[id]
              actual == calculate_storage_days(o.created_at, now).days
              extra == IF actual > o.expected_storage_days
                       THEN actual - o.expected_storage_days ELSE 0
          IN o.status # "PICKED_UP" /\ n.status = "PICKED_UP" =>
                /\ n.actual_storage_days = Some(actual)
                /\ n.extra_days = extra
                /\ n.extra_amount = extra * o.price_per_day
                /\ n.final_amount = o.prepaid_amount + extra * o.price_per_day
                /\ n.actual_pickup_at = Some(now)
                /\ n.prepaid_amount = o.prepaid_amount
                /\ n.expected_storage_days = o.expected_storage_days
                /\ n.payment_method = o.payment_method]_vars

\* an order picked up a day after the day it was expected to leave
PickedUpADayLate ==
    \E id \in DOMAIN orders :
        /\ orders[id].status = "PICKED_UP"
        /\ orders[id].actual_pickup_at = Some(now)
        /\ orders[id].extra_days = 1
        /\ orders[id].extra_amount = orders[id].price_per_day
        /\ orders[id].final_amount = orders[id].prepaid_amount + orders[id].price_per_day


\* what the undo of a pickup leaves of a stored order o in the stored order n
PickupIsUndone(o, n) ==
    /\ n.actual_pickup_at = None
    /\ n.actual_storage_days = None
    /\ n.extra_days = 0
    /\ n.extra_amount = 0
    /\ n.final_amount = o.prepaid_amount
    /\ n.status = IF o.payment_method # None THEN "PAID" ELSE "PAYMENT_PENDING"
    /\ n.prepaid_amount = o.prepaid_amount
    /\ n.payment_method = o.payment_method

\* C17: the undo of a pickup, asked for a PICKED_UP order by the form route
\* or the inline route, clears actual_pickup_at and actual_storage_days, sets
\* extra_days and extra_amount to 0 and final_amount to prepaid_amount, makes
\* the status PAID when a payment_method is recorded and PAYMENT_PENDING when
\* none is, and leaves prepaid_amount and payment_method as they were
UndoGoesBackToPrepaid ==
    \A id \in DOMAIN orders :
        orders[id].status = "PICKED_UP" =>
            LET form == staff_undo_picked_up(RowOf(orders[id]), daily_tag_counters)
                inline == staff_inline_undo_pickup_order(RowOf(orders[id]), daily_tag_counters)
            IN /\ form.ok /\ PickupIsUndone(orders[id], Stored(id, form))
               /\ inline.ok /\ PickupIsUndone(orders[id], Stored(id, inline))

\* a PICKED_UP order without payment, charged for an extra day, whose undo
\* gives a PAYMENT_PENDING order
UnpaidPickupToUndo ==
    \E id \in DOMAIN orders :
        /\ orders[id].status = "PICKED_UP"
        /\ orders[id].payment_method = None
        /\ orders[id].extra_amount > 0
        /\ Stored(id, staff_undo_picked_up(RowOf(orders[id]), daily_tag_counters)).status
               = "PAYMENT_PENDING"


\* ------------------------------------------------------ the pickup schedule
\* C18: no step changes expected_pickup_at or expected_storage_days of a
\* PICKED_UP order; a step that changes expected_pickup_at of an order that
\* is not PICKED_UP stores expected_storage_days = the storage days from
\* created_at to the new pickup time
ScheduleFixedOncePickedUp ==
    [][\A id \in DOMAIN orders \cap DOMAIN orders' :
          LET o == orders[id]
              n == orders'[id]
          IN IF o.status = "PICKED_UP"
             THEN /\ n.expected_pickup_at = o.expected_pickup_at
                  /\ n.expected_storage_days = o.expected_storage_days
             ELSE n.expected_pickup_at # o.expected_pickup_at =>
                      n.expected_storage_days =
                          calculate_storage_days(o.created_at, n.expected_pickup_at).days]_vars


\* ------------------------------------- cash closing requests one at a time
NextCashSeq ==
    \/ \E p \in Procs : AllIdle /\ CashCreateBegin(p)
    \/ \E p \in Procs : CashCreateInsert(p)
    \/ \E p \in Procs : AllIdle /\ CashUpdateBegin(p)
    \/ \E p \in Procs : AllIdle /\ CashSubmitBegin(p)
    \/ \E p \in Procs : AllIdle /\ CashVerifyLockBegin(p)
    \/ \E p \in Procs : CashRowWrite(p)

SpecCashSeq == InitCash /\ [][NextCashSeq]_vars

\* the closing as stored after a request h on closing id
StoredClosing(id, h) ==
    IF h.ok THEN DbUpdate(cash_closings, id, h.row.data, h.row.dirty)[id] ELSE cash_closings[id]

\* C19: staff_cash_closing_verify_lock is accepted exactly when the row is
\* SUBMITTED, has a recorded submitter, the acting staff member is not that
\* submitter and all four boxes of the checklist are on; the stored row is
\* then LOCKED with the four flags true, the actor as verifier and now as
\* verified_at; in every other case the request is rejected and the stored
\* row is unchanged
VerifyLockNeedsSecondSigner ==
    \A id \in DOMAIN cash_closings : \A staff \in Staff, checks \in CheckInputs :
        LET row == cash_closings[id]
            h == staff_cash_closing_verify_lock(RowOf(row), staff, checks, now)
            n == StoredClosing(id, h)
            allowed == /\ row.workflow_status = "SUBMITTED"
                       /\ row.submitted_by_staff_id # None
                       /\ row.submitted_by_staff_id # Some(staff)
                       /\ checks = AllOn
        IN /\ h.ok <=> allowed
           /\ h.ok => /\ n.workflow_status = "LOCKED"
                      /\ \A c \in DOMAIN AllOn : n[c] = TRUE
                      /\ n.verified_by_staff_id = Some(staff)
                      /\ n.verified_at = Some(now)
                      /\ n.submitted_by_staff_id = row.submitted_by_staff_id
           /\ ~h.ok => n = row

\* a closing locked by a verifier who is not its submitter, which neither of
\* them can lock again
LockedBySecondSigner ==
    \E id \in DOMAIN cash_closings :
        /\ cash_closings[id].workflow_status = "LOCKED"
        /\ cash_closings[id].verified_by_staff_id # None
        /\ cash_closings[id].verified_by_staff_id # cash_closings[id].submitted_by_staff_id
        /\ cash_closings[id].verified_at = Some(now)
        /\ \A c \in DOMAIN AllOn : cash_closings[id][c] = TRUE
        /\ \A staff \in Staff :
              ~staff_cash_closing_verify_lock(RowOf(cash_closings[id]), staff, AllOn, now).ok

\* C20: staff_cash_closing_submit is accepted from DRAFT and from SUBMITTED
\* and rejected from LOCKED, leaving the stored row unchanged; when accepted,
\* the stored row is SUBMITTED with the actor as submitter and now as
\* submitted_at, without verifier or verification time, and with the four
\* flags of the checklist false
SubmitResetsVerification ==
    \A id \in DOMAIN cash_closings : \A staff \in Staff :
        LET row == cash_closings[id]
            h == staff_cash_closing_submit(RowOf(row), staff, now)
            n == StoredClosing(id, h)
        IN /\ h.ok <=> row.workflow_status \in {"DRAFT", "SUBMITTED"}
           /\ row.workflow_status = "LOCKED" => ~h.ok /\ n = row
           /\ h.ok => /\ n.workflow_status = "SUBMITTED"
                      /\ n.submitted_by_staff_id = Some(staff)
                      /\ n.submitted_at = Some(now)
                      /\ n.verified_by_staff_id = None
                      /\ n.verified_at = None
                      /\ \A c \in DOMAIN AllOn : n[c] = FALSE

\* a closing created and then submitted by staff member 1, and one that is
\* locked and turns a submit down
SubmittedByFirstStaff ==
    /\ \E id \in DOMAIN cash_closings :
          /\ cash_closings[id].workflow_status = "SUBMITTED"
          /\ cash_closings[id].submitted_by_staff_id = Some(1)
          /\ cash_closings[id].verified_by_staff_id = None
          /\ \A c \in DOMAIN AllOn : cash_closings[id][c] = FALSE
    /\ \E id \in DOMAIN cash_closings :
          /\ cash_closings[id].workflow_status = "LOCKED"
          /\ ~staff_cash_closing_submit(RowOf(cash_closings[id]), 1, now).ok


\* ------------------------------------------------- the update of a closing
\* the update forms sent for closing id: the actor, the date, the type as
\* typed, the counts, the QR amount and the reason
UpdateForms ==
    [staff : Staff, business_date : CashDates, closing_type : ClosingTypeInputs,
     counts : RecountInputs \cup CountInputs, actual_qr_amount : QrInputs,
     admin_edit_reason : ReasonInputs]

\* staff_cash_closing_update run for closing id with form f, from its db.get;
\* a closing_type that parse_cash_closing_type refuses ends the request
UpdateRequest(id, f) ==
    LET type == parse_cash_closing_type(f.closing_type)
        h == staff_cash_closing_update(
                 RowOf(cash_closings[id]),
                 ensure_unique_cash_closing_type(cash_closings, f.business_date, type.value, {id}),
                 orders, f.staff, f.business_date, type.value, f.counts, f.actual_qr_amount,
                 f.admin_edit_reason)
    IN [h EXCEPT !.ok = type.ok /\ h.ok]

\* C21: staff_cash_closing_update is rejected, and the stored row unchanged,
\* for a LOCKED row when the actor is not an administrator, for a LOCKED row
\* when the reason is empty, and for a SUBMITTED row when the actor is neither
\* its recorded submitter nor an administrator; so an update of a SUBMITTED
\* or LOCKED row succeeds for no other actor
UpdateNeedsAuthority ==
    \A id \in DOMAIN cash_closings : \A f \in UpdateForms :
        LET row == cash_closings[id]
            h == UpdateRequest(id, f)
            denied == \/ row.workflow_status = "LOCKED" /\ f.staff \notin Admins
                      \/ row.workflow_status = "LOCKED" /\ Strip(f.admin_edit_reason) = ""
                      \/ /\ row.workflow_status = "SUBMITTED"
                         /\ f.staff \notin Admins
                         /\ row.submitted_by_staff_id # Some(f.staff)
        IN denied => ~h.ok /\ StoredClosing(id, h) = row

\* a LOCKED closing that turns down the update of staff member 2 and the
\* update the administrator sends with a blank reason, and accepts the one
\* the administrator sends with a reason
LockedRowRefusesUpdate ==
    \E id \in DOMAIN cash_closings : \E f \in UpdateForms :
        /\ cash_closings[id].workflow_status = "LOCKED"
        /\ f.closing_type = "MORNING_HANDOVER" /\ f.counts \in RecountInputs
        /\ f.admin_edit_reason = "fix"
        /\ ~UpdateRequest(id, [f EXCEPT !.staff = 2]).ok
        /\ ~UpdateRequest(id, [f EXCEPT !.staff = 1, !.admin_edit_reason = " "]).ok
        /\ UpdateRequest(id, [f EXCEPT !.staff = 1]).ok


\* the columns build_cash_closing_fields computes
ComputedFields ==
    {"total_amount", "paypay_amount", "actual_qr_amount", "qr_difference_amount",
     "check_auto_amount", "expected_amount", "actual_amount", "difference_amount"}

\* C22: a successful staff_cash_closing_update, whatever the workflow state
\* of the row, stores workflow_status = DRAFT, no submitter, no verifier and
\* the four flags of the checklist false, stores the totals a create with
\* the same counts and QR amount would store, and hands to the audit trail
\* an entry whose action is ADMIN_UNLOCK_UPDATE when the row was LOCKED and
\* UPDATE when it was not
UpdateGoesBackToDraft ==
    \A id \in DOMAIN cash_closings : \A f \in UpdateForms :
        LET row == cash_closings[id]
            h == UpdateRequest(id, f)
            n == StoredClosing(id, h)
            created == staff_cash_closing_create(orders, f.staff, f.business_date,
                                                 Upper(Strip(f.closing_type)), f.counts,
                                                 f.actual_qr_amount).data
        IN h.ok =>
             /\ n.workflow_status = "DRAFT"
             /\ n.submitted_by_staff_id = None /\ n.submitted_at = None
             /\ n.verified_by_staff_id = None /\ n.verified_at = None
             /\ \A c \in DOMAIN AllOn : n[c] = FALSE
             /\ n.counts = f.counts
             /\ n.total_amount = calc_cash_total(f.counts)
             /\ \A c \in ComputedFields : n[c] = created[c]
             /\ h.audit.closing_id = id
             /\ h.audit.action = IF row.workflow_status = "LOCKED"
                                 THEN "ADMIN_UNLOCK_UPDATE" ELSE "UPDATE"

\* a closing that was LOCKED and is a DRAFT again after the administrator's
\* update, the last entry of the audit trail
UnlockedByAdmin ==
    /\ cash_closing_audits # <<>>
    /\ LET last == cash_closing_audits[Len(cash_closing_audits)]
       IN /\ last.action = "ADMIN_UNLOCK_UPDATE"
          /\ last.closing_id \in DOMAIN cash_closings
          /\ cash_closings[last.closing_id].workflow_status = "DRAFT"
          /\ cash_closings[last.closing_id].verified_by_staff_id = None
          /\ cash_closings[last.closing_id].total_amount = 1000


\* ------------------------------------------------ the creation of a closing
\* the create forms: the actor, the date, the type as typed, the counts and
\* the QR amount
CreateForms ==
    [staff : Staff, business_date : CashDates, closing_type : ClosingTypeInputs,
     counts : CountInputs \cup RecountInputs, actual_qr_amount : QrInputs]
CreateOf(f) ==
    CreateRequest(cash_closings, orders, f.staff, f.business_date, f.closing_type, f.counts,
                  f.actual_qr_amount)
TakenBy(f) ==
    ClosingsWith(cash_closings, f.business_date, Upper(Strip(f.closing_type)), {})

MaxSalesOrders == 2
SalesVariants ==
    [day : {0, MaxDay}, status : {"PAYMENT_PENDING", "PAID", "PICKED_UP"},
     method : {None, Some("CASH"), Some("PAY_QR")}]
SalesOrder(k, v) ==
    LET pricing == calculate_price_per_day(k, 1)
        t == 24 * v.day + 12
        base == build_new_order_record(FormatOrderId("", v.day, k), t, k, 1, pricing.set_qty,
                    24 * v.day + 21, 1, pricing.price_per_day, 0,
                    calculate_prepaid_amount(pricing.price_per_day, 1).prepaid,
                    v.method, ToDecimal(k))
    IN IF v.status = "PICKED_UP" THEN apply_pickup_completion(RowOf(base), t).row.data
       ELSE [base EXCEPT !.status = v.status]
LedgerOf(c) ==
    LET recs == {SalesOrder(k, c[k]) : k \in DOMAIN c}
    IN [id \in {r.order_id : r \in recs} |-> CHOOSE r \in recs : r.order_id = id]
SalesLedgers == UNION {{LedgerOf(c) : c \in [1..n -> SalesVariants]} : n \in 0..MaxSalesOrders}

\* the create forms sent against a ledger
SalesCounts == {NoCoins, [NoCoins EXCEPT ![1] = -1],
                [NoCoins EXCEPT ![10000] = 1, ![500] = 3, ![5] = 1, ![1] = 2]}
SalesQrInputs == {-1, 0, 3000}
SalesForms ==
    [staff : Staff, business_date : CashDates, closing_type : {"final_close"},
     counts : SalesCounts, actual_qr_amount : SalesQrInputs]

\* the tables after staff_cash_closing_create with form f: the row inserted
\* and the CREATE entry of the audit trail, or nothing
CreateStored(f) ==
    LET r == CreateOf(f)
        closing_id == Cardinality(DOMAIN cash_closings) + 1
    IN IF r.insert
       THEN [closings |-> DbInsert(cash_closings, closing_id,
                                   [closing_id |-> closing_id] @@ r.data),
             audits |-> Append(cash_closing_audits,
                               create_cash_closing_audit(closing_id, "CREATE", f.staff, "",
                                                         SummaryPayload(r.data)))]
       ELSE [closings |-> cash_closings, audits |-> cash_closing_audits]

InitSales ==
    /\ now = 12
    /\ daily_counters = <<>>
    /\ daily_tag_counters = <<>>
    /\ orders \in SalesLedgers
    /\ issued = NoIssued
    /\ calls = NoCalls
    /\ started = 0
    /\ req = IdleReq
    /\ cash_closings = <<>>
    /\ cash_closing_audits = <<>>

\* one create request from its query to its audit entry
CashCreate ==
    \E f \in SalesForms :
        /\ Cardinality(DOMAIN cash_closings) < MaxClosings
        /\ cash_closings' = CreateStored(f).closings
        /\ cash_closing_audits' = CreateStored(f).audits
        /\ UNCHANGED <<started, req>>
        /\ CashUnchanged

NextSales == CashCreate
SpecSales == InitSales /\ [][NextSales]_vars

\* the sum over the ten denominations of the face value times the count
RECURSIVE FaceSum(_, _)
FaceSum(counts, denoms) ==
    IF denoms = {} THEN 0
    ELSE LET d == CHOOSE x \in denoms : TRUE
         IN d * counts[d] + FaceSum(counts, denoms \ {d})

\* the sum of prepaid_amount over the orders of the ledger created on a date,
\* PAID or PICKED_UP, and paid by a method
RECURSIVE LedgerSum(_, _, _)
LedgerSum(ids, business_date, method) ==
    IF ids = {} THEN 0
    ELSE LET id == CHOOSE x \in ids : TRUE
             counted == /\ orders[id].created_at \in (24 * business_date)..(24 * business_date + 23)
                        /\ orders[id].status # "PAYMENT_PENDING"
                        /\ orders[id].payment_method = {method}
         IN (IF counted THEN orders[id].prepaid_amount ELSE 0)
            + LedgerSum(ids \ {id}, business_date, method)

\* C24: a successful create stores total_amount = the sum over the ten
\* denominations of face value times count, actual_qr_amount = the reported
\* QR amount when it is >= 0 and the automatic QR amount when it is not,
\* qr_difference_amount = actual_qr_amount - automatic QR amount,
\* difference_amount = total_amount - automatic cash amount, workflow_status
\* DRAFT without submitter or verifier, and appends one CREATE entry for the
\* new row to the audit trail
CreateStoresTotals ==
    \A f \in SalesForms :
        LET e == CreateStored(f)
            id == Cardinality(DOMAIN cash_closings) + 1
            auto_qr == LedgerSum(DOMAIN orders, f.business_date, "PAY_QR")
            auto_cash == LedgerSum(DOMAIN orders, f.business_date, "CASH")
        IN CreateOf(f).insert =>
             LET n == e.closings[id]
             IN /\ DOMAIN e.closings = DOMAIN cash_closings \cup {id}
                /\ n.total_amount = FaceSum(f.counts, COIN_BILL_DENOMS)
                /\ n.actual_qr_amount = IF f.actual_qr_amount >= 0 THEN f.actual_qr_amount
                                        ELSE auto_qr
                /\ n.qr_difference_amount = n.actual_qr_amount - auto_qr
                /\ n.difference_amount = n.total_amount - auto_cash
                /\ n.workflow_status = "DRAFT"
                /\ n.submitted_by_staff_id = None
                /\ n.verified_by_staff_id = None
                /\ Len(e.audits) = Len(cash_closing_audits) + 1
                /\ e.audits[Len(e.audits)].action = "CREATE"
                /\ e.audits[Len(e.audits)].closing_id = id
                /\ e.audits[Len(e.audits)].staff_id = f.staff

\* a stored closing with coins counted and a QR amount reported that is not
\* the automatic one, against a ledger with a QR payment
ClosingWithReportedQr ==
    \E id \in DOMAIN cash_closings :
        /\ cash_closings[id].total_amount = 11507
        /\ cash_closings[id].actual_qr_amount = 3000
        /\ cash_closings[id].qr_difference_amount \notin {0, 3000}
        /\ cash_closings[id].difference_amount # 11507
        /\ Len(cash_closing_audits) = 1

\* C25: for a business date, the automatic cash amount and the automatic QR
\* amount of summarize_order_sales_for_date are the sums of prepaid_amount
\* over the orders created on that date that are PAID or PICKED_UP and paid
\* by CASH and by PAY_QR; a PAYMENT_PENDING order adds to neither
AutoAmountsSumPaidOrders ==
    \A d \in Dates :
        LET sales == summarize_order_sales_for_date(orders, d)
            pending == {id \in DOMAIN orders : orders[id].status = "PAYMENT_PENDING"}
            settled == [id \in DOMAIN orders \ pending |-> orders[id]]
        IN /\ sales.cash_amount = LedgerSum(DOMAIN orders, d, "CASH")
           /\ sales.qr_amount = LedgerSum(DOMAIN orders, d, "PAY_QR")
           /\ summarize_order_sales_for_date(settled, d) = sales

\* a ledger with a pending CASH order and a picked-up CASH order of one date,
\* of which the closing stored counts the second alone
PendingOrderLeftOut ==
    /\ \E a, b \in DOMAIN orders :
          /\ orders[a].status = "PAYMENT_PENDING" /\ orders[a].payment_method = Some("CASH")
          /\ orders[b].status = "PICKED_UP" /\ orders[b].payment_method = Some("CASH")
          /\ DateOf(orders[a].created_at) = 0 /\ DateOf(orders[b].created_at) = 0
          /\ summarize_order_sales_for_date(orders, 0).cash_amount = orders[b].prepaid_amount
          /\ \E id \in DOMAIN cash_closings :
                cash_closings[id].check_auto_amount = orders[b].prepaid_amount


\* ------------------------------ the audit entry and the row write, in steps
\* create_cash_closing_audit(...): the entry is inserted; db.update(row) is
\* still to come
CashAuditInsert(p) ==
    /\ req[p].op = "cash_write"
    /\ cash_closing_audits' = Append(cash_closing_audits, req[p].audit)
    /\ req' = [req EXCEPT ![p] = [op |-> "cash_update", staff |-> req[p].staff,
                                  row |-> req[p].row]]
    /\ UNCHANGED <<cash_closings, started>>
    /\ CashUnchanged

\* db.update(row), then the redirect
CashRowUpdate(p) ==
    /\ req[p].op = "cash_update"
    /\ cash_closings' = DbUpdate(cash_closings, req[p].row.data.closing_id,
                                 req[p].row.data, req[p].row.dirty)
    /\ req' = [req EXCEPT ![p] = [op |-> "idle"]]
    /\ UNCHANGED <<cash_closing_audits, started>>
    /\ CashUnchanged

\* db.update(row) raises (execute() fails): the request ends in an error,
\* the row as it was
CashRowUpdateFails(p) ==
    /\ req[p].op = "cash_update"
    /\ req' = [req EXCEPT ![p] = [op |-> "idle"]]
    /\ UNCHANGED <<cash_closings, cash_closing_audits, started>>
    /\ CashUnchanged

NextCashSteps ==
    \/ \E p \in Procs : AllIdle /\ CashCreateBegin(p)
    \/ \E p \in Procs : CashCreateInsert(p)
    \/ \E p \in Procs : AllIdle /\ CashUpdateBegin(p)
    \/ \E p \in Procs : AllIdle /\ CashSubmitBegin(p)
    \/ \E p \in Procs : AllIdle /\ CashVerifyLockBegin(p)
    \/ \E p \in Procs : CashAuditInsert(p)
    \/ \E p \in Procs : CashRowUpdate(p)
    \/ \E p \in Procs : CashRowUpdateFails(p)

SpecCashSteps == InitCash /\ [][NextCashSteps]_vars

\* the workflow state a mutation of that action leaves the row in
StatusAfter(action) ==
    CASE action = "SUBMIT" -> "SUBMITTED"
      [] action = "VERIFY_LOCK" -> "LOCKED"
      [] OTHER -> "DRAFT"

\* the entries of the audit trail that are about closing id
AuditsOf(id) == SelectSeq(cash_closing_audits, LAMBDA e : e.closing_id = id)

\* C26: an audit entry of an update, a submit or a verify-lock is in the
\* trail only once the row change is stored: at all times the last entry
\* about a closing names the staff member who wrote the row last and the
\* workflow state the row is in
AuditEntryFollowsRowWrite ==
    \A id \in DOMAIN cash_closings :
        AuditsOf(id) # <<>> =>
            LET last == AuditsOf(id)[Len(AuditsOf(id))]
            IN /\ cash_closings[id].workflow_status = StatusAfter(last.action)
               /\ cash_closings[id].staff_id = last.staff_id


\* --------------------------------------------------------- the audit trail
\* the action an entry has for the change of closing id in a step
ActionOfChange(id) ==
    IF id \notin DOMAIN cash_closings THEN "CREATE"
    ELSE CASE cash_closings'[id].workflow_status = "SUBMITTED" -> "SUBMIT"
           [] cash_closings'[id].workflow_status = "LOCKED" -> "VERIFY_LOCK"
           [] OTHER -> IF cash_closings[id].workflow_status = "LOCKED"
                       THEN "ADMIN_UNLOCK_UPDATE" ELSE "UPDATE"

\* C27: the audit trail only grows, by one entry at a time and without a
\* change to the entries it has; every step that inserts or writes a closing
\* appends one entry, and the entry appended is about the closing written,
\* names the staff member who wrote it, and has the action CREATE for an
\* insert, SUBMIT for a submit, VERIFY_LOCK for a verify-lock, and
\* ADMIN_UNLOCK_UPDATE or UPDATE for an update of a row that was or was not
\* LOCKED
AuditTrailIsAppendOnlyAndComplete ==
    [][LET n == Len(cash_closing_audits)
           e == cash_closing_audits'[n + 1]
       IN /\ Len(cash_closing_audits') \in {n, n + 1}
          /\ SubSeq(cash_closing_audits', 1, n) = cash_closing_audits
          /\ cash_closings' # cash_closings => Len(cash_closing_audits') = n + 1
          /\ Len(cash_closing_audits') = n + 1 =>
                /\ e.closing_id \in DOMAIN cash_closings'
                /\ e.staff_id = cash_closings'[e.closing_id].staff_id
                /\ e.action = ActionOfChange(e.closing_id)
                /\ \A id \in DOMAIN cash_closings \ {e.closing_id} :
                      cash_closings'[id] = cash_closings[id]]_vars

\* the trail of a closing created and submitted by staff member 2, locked by
\* staff member 1 and unlocked by the administrator's update
TrailOfFourEntries ==
    /\ Len(cash_closing_audits) = 4
    /\ [k \in 1..4 |-> cash_closing_audits[k].action]
          = <<"CREATE", "SUBMIT", "VERIFY_LOCK", "ADMIN_UNLOCK_UPDATE">>
    /\ [k \in 1..4 |-> cash_closing_audits[k].staff_id] = <<2, 2, 1, 1>>
    /\ \A k \in 1..4 : cash_closing_audits[k].closing_id = 1


\* the six fields of a row that the payload of an audit entry is to hold
SixFields ==
    {"business_date", "closing_type", "workflow_status", "total_amount",
     "difference_amount", "qr_difference_amount"}

\* C28: the payload of the audit entry that a create, an update, a submit or
\* a verify-lock appends holds the six fields business_date, closing_type,
\* workflow_status, total_amount, difference_amount (cash) and
\* qr_difference_amount, each with the value the row has after the operation
PayloadHoldsSixFields ==
    [][Len(cash_closing_audits') = Len(cash_closing_audits) + 1 =>
          LET e == cash_closing_audits'[Len(cash_closing_audits')]
          IN /\ SixFields \subseteq DOMAIN e.payload
             /\ \A c \in SixFields : e.payload[c] = cash_closings'[e.closing_id][c]]_vars


\* ------------------------------------------------------- rejected requests
\* forms with a closing type that parse_cash_closing_type refuses among them
TypeInputsWithBad == ClosingTypeInputs \cup {"WEEKLY"}
CreateFormsWithBad ==
    [staff : Staff, business_date : CashDates, closing_type : TypeInputsWithBad,
     counts : CountInputs \cup RecountInputs, actual_qr_amount : QrInputs]
UpdateFormsWithBad ==
    [staff : Staff, business_date : CashDates, closing_type : TypeInputsWithBad,
     counts : RecountInputs \cup CountInputs, actual_qr_amount : QrInputs,
     admin_edit_reason : ReasonInputs]

\* the two tables as they are, and as a request on closing id leaves them:
\* the audit entry and the row write of a handler h that did not raise
TablesNow == [closings |-> cash_closings, audits |-> cash_closing_audits]
WriteStored(id, h) ==
    IF h.ok
    THEN [closings |-> DbUpdate(cash_closings, id, h.row.data, h.row.dirty),
          audits |-> Append(cash_closing_audits, h.audit)]
    ELSE TablesNow

HasNegativeCount(counts) == \E d \in COIN_BILL_DENOMS : counts[d] < 0
BadType(raw) == Upper(Strip(raw)) \notin CASH_CLOSING_TYPES

\* C29: a cash-closing request that fails a check leaves the closings and
\* the audit trail as they were: a create or an update with a negative count
\* or an unknown closing type, a create for a date and type that are taken,
\* an update to a date and type another closing has, an update of a LOCKED
\* row by a non-administrator or without reason, an update of a SUBMITTED
\* row by someone who is neither its submitter nor an administrator, a
\* submit of a LOCKED row, and a verify-lock of a row that is not SUBMITTED,
\* by its submitter, or with a box of the checklist left off
RejectedRequestChangesNothing ==
    /\ \A f \in CreateFormsWithBad :
          (HasNegativeCount(f.counts) \/ BadType(f.closing_type) \/ TakenBy(f) # {})
              => CreateStored(f) = TablesNow
    /\ \A id \in DOMAIN cash_closings :
          LET row == cash_closings[id]
          IN /\ \A f \in UpdateFormsWithBad :
                   (\/ HasNegativeCount(f.counts)
                    \/ BadType(f.closing_type)
                    \/ \E other \in DOMAIN cash_closings \ {id} :
                          /\ cash_closings[other].business_date = f.business_date
                          /\ cash_closings[other].closing_type = Upper(Strip(f.closing_type))
                    \/ row.workflow_status = "LOCKED" /\ f.staff \notin Admins
                    \/ row.workflow_status = "LOCKED" /\ Strip(f.admin_edit_reason) = ""
                    \/ /\ row.workflow_status = "SUBMITTED"
                       /\ f.staff \notin Admins
                       /\ row.submitted_by_staff_id # Some(f.staff))
                       => WriteStored(id, UpdateRequest(id, f)) = TablesNow
             /\ \A staff \in Staff :
                   row.workflow_status = "LOCKED"
                       => WriteStored(id, staff_cash_closing_submit(RowOf(row), staff, now))
                             = TablesNow
             /\ \A staff \in Staff, checks \in CheckInputs :
                   (\/ row.workflow_status # "SUBMITTED"
                    \/ row.submitted_by_staff_id = Some(staff)
                    \/ checks # AllOn)
                       => WriteStored(id, staff_cash_closing_verify_lock(RowOf(row), staff,
                                                                         checks, now))
                             = TablesNow

\* two closings of one date, one of them LOCKED: an update with a negative
\* count, an update to the type of the other closing and a create for a
\* taken type all have something to be turned down for
TwoClosingsOneLocked ==
    \E a, b \in DOMAIN cash_closings :
        /\ a # b
        /\ cash_closings[a].workflow_status = "LOCKED"
        /\ cash_closings[a].business_date = cash_closings[b].business_date
        /\ cash_closings[b].workflow_status = "DRAFT"
        /\ \E f \in UpdateFormsWithBad :
              /\ f.staff = 1 /\ f.admin_edit_reason = "fix" /\ ~HasNegativeCount(f.counts)
              /\ Upper(Strip(f.closing_type)) = cash_closings[b].closing_type
              /\ ~UpdateRequest(a, f).ok
        /\ \E f \in UpdateFormsWithBad :
              /\ HasNegativeCount(f.counts) /\ ~UpdateRequest(b, f).ok


\* ------------------------------------------------------ the price of a day
\* the quantities calculate_price_per_day is called with: from -1 to
\* MaxBagInput suitcases and backpacks
MaxBagInput == 9
BagQuantities == (0 - 1)..MaxBagInput

InitPricing ==
    /\ now = 12
    /\ daily_counters = <<>>
    /\ daily_tag_counters = <<>>
    /\ orders = <<>>
    /\ issued = NoIssued
    /\ calls = NoCalls
    /\ started = 0
    /\ req = IdleReq
    /\ cash_closings = <<>>
    /\ cash_closing_audits = <<>>

\* one call of calculate_price_per_day: request 1 holds the quantities and
\* what the call gave, ok = FALSE for the ValueError
PriceCall ==
    /\ \E s \in BagQuantities, b \in BagQuantities :
          LET r == calculate_price_per_day(s, b)
          IN req' = [req EXCEPT ![1] = [op |-> "priced", suitcase_qty |-> s,
                                        backpack_qty |-> b, ok |-> r.ok,
                                        set_qty |-> r.set_qty,
                                        price_per_day |-> r.price_per_day]]
    /\ UNCHANGED <<started, cash_closings, cash_closing_audits>>
    /\ CashUnchanged

\* the day counts the discount and the prepaid amount are asked for
MaxDayCount == 61
DayCounts == 0..MaxDayCount

\* one call of discount_rate_for_days
DiscountCall ==
    /\ \E d \in DayCounts :
          req' = [req EXCEPT ![1] = [op |-> "rated", storage_days |-> d,
                                     discount_rate |-> discount_rate_for_days(d)]]
    /\ UNCHANGED <<started, cash_closings, cash_closing_audits>>
    /\ CashUnchanged

\* the daily prices calculate_prepaid_amount is called with: sums of the
\* rates and prices no bag combination gives
PriceInputs == {0, 10, 35, 500, 800, 1200, 2900}

\* one call of calculate_prepaid_amount
PrepaidCall ==
    /\ \E price \in PriceInputs, d \in DayCounts \ {0} :
          LET r == calculate_prepaid_amount(price, d)
          IN req' = [req EXCEPT ![1] = [op |-> "prepaid", price_per_day |-> price,
                                        expected_storage_days |-> d,
                                        discount_rate |-> r.discount_rate,
                                        prepaid |-> r.prepaid]]
    /\ UNCHANGED <<started, cash_closings, cash_closing_audits>>
    /\ CashUnchanged

\* the base amounts and tiers flying_pass_discount_amount is called with:
\* the six tiers, two lower-case spellings, an unknown tier and none ("")
BaseInputs == {0 - 50, 0, 50, 100, 250, 399, 400, 11400}
PassTierInputs == FLYING_PASS_TIERS \cup {"blue", "black", "VIP", "", " "}

\* one call of flying_pass_discount_amount
PassDiscountCall ==
    /\ \E base \in BaseInputs, tier \in PassTierInputs :
          req' = [req EXCEPT ![1] = [op |-> "pass", base_prepaid |-> base,
                                     tier |-> tier,
                                     discount |-> flying_pass_discount_amount(base, tier)]]
    /\ UNCHANGED <<started, cash_closings, cash_closing_audits>>
    /\ CashUnchanged

\* the UTC times, in whole hours, calculate_storage_days is called with:
\* two days of them
MaxStorageHour == 47
StorageTimes == 0..MaxStorageHour

\* one call of calculate_storage_days with two UTC times
StorageDaysCall ==
    /\ \E created \in StorageTimes, pickup \in StorageTimes :
          LET r == calculate_storage_days(to_jst(created), to_jst(pickup))
          IN req' = [req EXCEPT ![1] = [op |-> "stored", created_at |-> created,
                                        pickup_at |-> pickup, ok |-> r.ok,
                                        days |-> r.days]]
    /\ UNCHANGED <<started, cash_closings, cash_closing_audits>>
    /\ CashUnchanged

NextPricing ==
    \/ PriceCall
    \/ DiscountCall
    \/ PrepaidCall
    \/ PassDiscountCall
    \/ StorageDaysCall
SpecPricing == InitPricing /\ [][NextPricing]_vars

\* C30: calculate_price_per_day(s, b) fails when s < 0 or b < 0, and gives
\* otherwise set_qty = min(s, b) and price_per_day = set_qty * 1200 +
\* (s - set_qty) * 800 + (b - set_qty) * 500
PricePerDayMatchesSets ==
    \A p \in Procs :
        req[p].op = "priced" =>
            LET s == req[p].suitcase_qty
                b == req[p].backpack_qty
                sets == IF s <= b THEN s ELSE b
            IN IF s < 0 \/ b < 0
               THEN ~req[p].ok
               ELSE /\ req[p].ok
                    /\ req[p].set_qty = sets
                    /\ req[p].price_per_day = sets * 1200 + (s - sets) * 800 + (b - sets) * 500

\* the call for two suitcases and three backpacks: two sets and 2900
TwoSuitcasesThreeBackpacks ==
    \E p \in Procs :
        /\ req[p].op = "priced"
        /\ req[p].suitcase_qty = 2 /\ req[p].backpack_qty = 3
        /\ req[p].ok /\ req[p].set_qty = 2 /\ req[p].price_per_day = 2900


\* the step table of the long-stay discount, in percent
StepRate(d) ==
    CASE d < 7 -> 0
      [] 7 <= d /\ d < 14 -> 5
      [] 14 <= d /\ d < 30 -> 10
      [] 30 <= d /\ d < 60 -> 15
      [] d >= 60 -> 20

\* C31: discount_rate_for_days(d) is 0% for d < 7, 5% for 7 <= d < 14, 10%
\* for 14 <= d < 30, 15% for 30 <= d < 60 and 20% for d >= 60, and a call
\* for no fewer days never gives a lower rate
DiscountIsStepTable ==
    /\ [](req[1].op = "rated" => req[1].discount_rate = StepRate(req[1].storage_days))
    /\ [][(/\ req[1].op = "rated" /\ req'[1].op = "rated"
           /\ req[1].storage_days <= req'[1].storage_days)
          => req[1].discount_rate <= req'[1].discount_rate]_vars

\* the call for sixty days: the top rate, at its inclusive lower bound
SixtyDaysRated ==
    /\ req[1].op = "rated"
    /\ req[1].storage_days = 60
    /\ req[1].discount_rate = 20

\* C32: calculate_prepaid_amount(p, d) gives the discount rate for d and the
\* integer nearest to p * d * (100 - discount percent for d) / 100
PrepaidIsNearestInteger ==
    req[1].op = "prepaid" =>
        LET p == req[1].price_per_day
            d == req[1].expected_storage_days
            exact100 == p * d * (100 - StepRate(d))
            off == 100 * req[1].prepaid - exact100
        IN /\ req[1].discount_rate = StepRate(d)
           /\ 2 * off <= 100
           /\ 2 * (0 - off) <= 100

\* the call for 1200 a day and ten days: 5% off, 11400
TenDaysAtTwelveHundred ==
    /\ req[1].op = "prepaid"
    /\ req[1].price_per_day = 1200
    /\ req[1].expected_storage_days = 10
    /\ req[1].discount_rate = 5
    /\ req[1].prepaid = 11400


\* C33: flying_pass_discount_amount(base, tier) is min(fixed amount, base)
\* for NONE 0, BLUE 100, SILVER 200, GOLD 300 and PLATINUM 400, base for
\* BLACK, 0 for an unknown or absent tier, and lies between 0 and base for
\* every base >= 0
PassDiscountIsCappedAmount ==
    (req[1].op = "pass" /\ req[1].base_prepaid >= 0) =>
        LET base == req[1].base_prepaid
            tier == req[1].tier
            got == req[1].discount
            Capped(fixed) == IF fixed <= base THEN fixed ELSE base
        IN /\ tier = "NONE" => got = Capped(0)
           /\ tier = "BLUE" => got = Capped(100)
           /\ tier = "SILVER" => got = Capped(200)
           /\ tier = "GOLD" => got = Capped(300)
           /\ tier = "PLATINUM" => got = Capped(400)
           /\ tier = "BLACK" => got = base
           /\ tier \in {"VIP", "", " "} => got = 0
           /\ 0 <= got /\ got <= base

\* the call for a PLATINUM pass on a base of 250: the base caps the 400
PlatinumOnSmallBase ==
    /\ req[1].op = "pass"
    /\ req[1].base_prepaid = 250
    /\ req[1].tier = "PLATINUM"
    /\ req[1].discount = 250


\* the local calendar day of a UTC time in whole hours
LocalDay(utc) == (utc + 9) \div 24

\* C34: calculate_storage_days(created, pickup) fails when pickup precedes
\* creation, and gives otherwise the local calendar date of pickup minus
\* that of creation, in days, plus 1, never less than 1: 1 for a pickup on
\* the creation day and 2 for one on the next local day
StorageDaysCountCalendarDays ==
    req[1].op = "stored" =>
        LET created == req[1].created_at
            pickup == req[1].pickup_at
        IN IF pickup < created
           THEN ~req[1].ok
           ELSE /\ req[1].ok
                /\ req[1].days = LocalDay(pickup) - LocalDay(created) + 1
                /\ req[1].days >= 1
                /\ LocalDay(pickup) = LocalDay(created) => req[1].days = 1
                /\ LocalDay(pickup) = LocalDay(created) + 1 => req[1].days = 2

\* left at 23:00 local time and picked up two hours later, on the next
\* local day and the same UTC day: two days
PickedUpAfterLocalMidnight ==
    /\ req[1].op = "stored"
    /\ req[1].created_at = 14
    /\ req[1].pickup_at = 16
    /\ req[1].ok
    /\ req[1].days = 2


\* ------------------------------------------------ the order's pickup fields
\* C35: an order is PICKED_UP exactly when its actual_pickup_at and
\* actual_storage_days are set; a PAYMENT_PENDING or PAID order has no
\* actual pickup time, extra_days = 0 and extra_amount = 0
PickupFieldsFollowStatus ==
    \A id \in DOMAIN orders :
        LET o == orders[id]
        IN /\ o.status = "PICKED_UP" <=>
                  (~IsNone(o.actual_pickup_at) /\ ~IsNone(o.actual_storage_days))
           /\ o.status \in {"PAYMENT_PENDING", "PAID"} =>
                  /\ IsNone(o.actual_pickup_at)
                  /\ o.extra_days = 0
                  /\ o.extra_amount = 0


\* the sum of prepaid_amount over the PAID and PICKED_UP orders created on a
\* date, whatever their payment method
RECURSIVE SettledSum(_, _)
SettledSum(ids, business_date) ==
    IF ids = {} THEN 0
    ELSE LET id == CHOOSE x \in ids : TRUE
             counted == /\ orders[id].created_at \in (24 * business_date)..(24 * business_date + 23)
                        /\ orders[id].status \in {"PAID", "PICKED_UP"}
         IN (IF counted THEN orders[id].prepaid_amount ELSE 0)
            + SettledSum(ids \ {id}, business_date)

\* C36: a PAID or PICKED_UP order has payment_method CASH or PAY_QR, and for
\* every business date the ledger's cash amount plus QR amount is the sum of
\* prepaid_amount over the PAID and PICKED_UP orders of that date
SettledOrdersCarryMethod ==
    /\ \A id \in DOMAIN orders :
          orders[id].status \in {"PAID", "PICKED_UP"} =>
              orders[id].payment_method \in {{"CASH"}, {"PAY_QR"}}
    /\ \A d \in Dates :
          LET sales == summarize_order_sales_for_date(orders, d)
          IN sales.cash_amount + sales.qr_amount = SettledSum(DOMAIN orders, d)


\* ------------------------------------------- approval fields of a closing
\* the four checklist flags of a closing all have the value b
FlagsAre(c, b) ==
    /\ c.check_cash_match = b
    /\ c.check_qr_match = b
    /\ c.check_pending_items = b
    /\ c.check_handover_note = b

\* C37: with the requests run one at a time, a DRAFT closing has no
\* submitter, no verifier and its four flags false; a SUBMITTED closing has
\* a submitter, no verifier and its four flags false; a LOCKED closing has
\* a submitter, a verifier and its four flags true
ApprovalFieldsFollowStatus ==
    \A id \in DOMAIN cash_closings :
        LET c == cash_closings[id]
        IN /\ c.workflow_status \in {"DRAFT", "SUBMITTED", "LOCKED"}
           /\ c.workflow_status = "DRAFT" =>
                  /\ IsNone(c.submitted_by_staff_id)
                  /\ IsNone(c.verified_by_staff_id)
                  /\ FlagsAre(c, FALSE)
           /\ c.workflow_status = "SUBMITTED" =>
                  /\ ~IsNone(c.submitted_by_staff_id)
                  /\ IsNone(c.verified_by_staff_id)
                  /\ FlagsAre(c, FALSE)
           /\ c.workflow_status = "LOCKED" =>
                  /\ ~IsNone(c.submitted_by_staff_id)
                  /\ ~IsNone(c.verified_by_staff_id)
                  /\ FlagsAre(c, TRUE)

\* a closing in each of the three states of the workflow at once would need
\* three closings; two are kept: one LOCKED, one back in DRAFT
LockedAndDraftClosings ==
    \E a, b \in DOMAIN cash_closings :
        /\ cash_closings[a].workflow_status = "LOCKED"
        /\ FlagsAre(cash_closings[a], TRUE)
        /\ cash_closings[b].workflow_status = "DRAFT"
        /\ \E k \in DOMAIN cash_closing_audits :
              /\ cash_closing_audits[k].closing_id = b
              /\ cash_closing_audits[k].action = "UPDATE"


\* -------------------------------------- the prepaid amount and its override
\* C38: after creation and any recalculations, with auto = max(base prepaid
\* for (price_per_day, expected_storage_days) - membership discount for the
\* order's tier, 0): prepaid_amount = auto when no override is recorded, and
\* prepaid_amount = the override, which differs from auto, when one is
PrepaidIsAutoOrOverride ==
    \A id \in DOMAIN orders :
        LET o == orders[id]
            base == calculate_prepaid_amount(o.price_per_day, o.expected_storage_days).prepaid
            discount == flying_pass_discount_amount(base, o.flying_pass_tier)
            auto == IF base - discount > 0 THEN base - discount ELSE 0
        IN IF IsNone(o.staff_prepaid_override_amount)
           THEN o.prepaid_amount = auto
           ELSE /\ o.prepaid_amount = Val(o.staff_prepaid_override_amount)
                /\ o.prepaid_amount # auto

\* a BLUE order of several days that carries an override of 1000
BlueOrderWithOverride ==
    \E id \in DOMAIN orders :
        /\ orders[id].flying_pass_tier = "BLUE"
        /\ orders[id].expected_storage_days > 1
        /\ orders[id].staff_prepaid_override_amount = Some(1000)
        /\ orders[id].prepaid_amount = 1000


\* ------------------------------------------- the computed fields of a closing
\* a ledger of one order paid in cash and one order not yet paid and the
\* closing created against it by staff 2; then update requests that overlap
\* each other and the payment of the second order
InitRecount ==
    /\ now = 12
    /\ daily_counters = <<>>
    /\ daily_tag_counters = <<>>
    /\ orders = LedgerOf(<<[day |-> 0, status |-> "PAID", method |-> Some("CASH")],
                           [day |-> 0, status |-> "PAYMENT_PENDING", method |-> Some("PAY_QR")]>>)
    /\ issued = NoIssued
    /\ calls = NoCalls
    /\ started = 0
    /\ req = IdleReq
    /\ LET created == staff_cash_closing_create(orders, 2, 0, "FINAL_CLOSE", NoCoins, 0 - 1)
       IN /\ cash_closings = (1 :> ([closing_id |-> 1] @@ created.data))
          /\ cash_closing_audits =
                <<create_cash_closing_audit(1, "CREATE", 2, "", SummaryPayload(created.data))>>

\* the second order of the ledger is paid by QR: staff_mark_paid
LedgerOrderPaid ==
    \E id \in DOMAIN orders :
        /\ orders[id].status = "PAYMENT_PENDING"
        /\ RunOrderRequest(id, staff_mark_paid(RowOf(orders[id]), daily_tag_counters, "PAY_QR", <<>>))

\* staff_cash_closing_update up to its writes, with a recount and a reported
\* QR amount
CashRecountBegin(p) ==
    \E closing_id \in DOMAIN cash_closings, staff \in Staff,
       counts \in SalesCounts, qr \in {0 - 1, 3000} :
        CashRowRead(p, staff,
            staff_cash_closing_update(
                RowOf(cash_closings[closing_id]),
                ensure_unique_cash_closing_type(cash_closings, 0, "FINAL_CLOSE", {closing_id}),
                orders, staff, 0, "FINAL_CLOSE", counts, qr, "fix"))

NextRecount ==
    \/ LedgerOrderPaid
    \/ \E p \in Procs : CashRecountBegin(p)
    \/ \E p \in Procs : CashRowWrite(p)

SpecRecount == InitRecount /\ [][NextRecount]_vars

\* C39: in every reachable state, those after overlapping update requests on
\* one closing included, each closing has total_amount = the sum of face
\* value times stored count over the ten denominations, difference_amount =
\* total_amount - the stored automatic cash amount, and qr_difference_amount
\* = the stored actual QR amount - the stored automatic QR amount
ClosingRowIsConsistent ==
    \A id \in DOMAIN cash_closings :
        LET c == cash_closings[id]
        IN /\ c.total_amount = FaceSum(c.counts, COIN_BILL_DENOMS)
           /\ c.difference_amount = c.total_amount - c.check_auto_amount
           /\ c.qr_difference_amount = c.actual_qr_amount - c.paypay_amount


\* two update requests on closing 1 in flight at once, read before and
\* after the payment of the second order, with different counts; the closing
\* already rewritten by an earlier update
OverlappingRecounts ==
    /\ req[1].op = "cash_write" /\ req[2].op = "cash_write"
    /\ req[1].row.data.closing_id = 1 /\ req[2].row.data.closing_id = 1
    /\ req[1].row.data.total_amount = 11507 /\ req[2].row.data.total_amount = 0
    /\ req[1].row.data.paypay_amount = 0 /\ req[2].row.data.paypay_amount > 0
    /\ req[2].row.data.actual_qr_amount = 3000
    /\ cash_closings[1].total_amount = 11507
    /\ Len(cash_closing_audits) = 2
====
